---- MODULE Spec2Model ----
(***************************************************************************)
(* Model of the gowarcraft3 packet buffer (pkg/util/packetbuffer.go) and   *)
(* of the W3G replay record codecs and record factory that are built on    *)
(* it.  A buffer is the sequence of its unread bytes, a record is a TLA+   *)
(* record with a kind field, and one codec session serializes a record     *)
(* (or receives bytes from a replay), then decodes it again.               *)
(***************************************************************************)
EXTENDS Integers, Sequences, FiniteSets, TLC

VARIABLES
    buf,      \* Buffer.Bytes: the unread bytes of the buffer
    enc,      \* Encoding.GameVersion
    pc,       \* "idle", "serialized", "ready", "decoded"
    origin,   \* where the bytes in buf come from: "none", "serialized", "prefix", "raw"
    val,      \* the record that was serialized (or the zero record of the expected kind)
    pre,      \* the bytes that were in the buffer before Serialize was called
    wire,     \* the bytes handed to Deserialize
    via,      \* how the decoded record was obtained: "none", "direct", "factory", "cache", ...
    res,      \* outcome of Deserialize: [err, rec, rest]
    into,     \* the field values of the record Deserialize was called on
    appended, \* every byte appended to the buffer so far, in order
    consumed, \* number of bytes consumed from the buffer so far
    patches,  \* number of overwrite operations applied to the buffer
    last,     \* the last buffer operation: [op, arg, pos, ret, err, before]
    buf2,     \* the second buffer of the BNCS packet tests
    dump,     \* state of the w3gdump record loop
    stream    \* state of the w3gdump stream handshake (cast)

codecVars == <<enc, pc, origin, val, pre, wire, via, res, into>>

ledgerVars == <<appended, consumed, patches, last>>

\* what a codec session leaves alone
outsideCodec == <<ledgerVars, buf2, dump, stream>>

vars == <<buf, codecVars, ledgerVars, buf2, dump, stream>>

----------------------------------------------------------------------------
(* Bounds of the model *)

MaxActions == 2      \* actions per serialized TimeSlot
MaxDataLen == 2      \* bytes of data per small action
MaxContent == 2      \* bytes of content per small ChatMessage
MaxBody    == 5      \* bytes following the length field in a received record
MaxDecl    == 6      \* declared length of a received record
MaxPrefix  == 9      \* length of the strict prefixes of serialized records

U16 == 65536         \* uint16 wraps modulo 2^16
U8  == 256           \* uint8 wraps modulo 2^8

----------------------------------------------------------------------------
(* Record identifiers and message types *)

RidPlayerInfo     == 22   \* 0x16
RidPlayerLeft     == 23   \* 0x17
RidCountDownStart == 26   \* 0x1A
RidCountDownEnd   == 27   \* 0x1B
RidGameStart      == 28   \* 0x1C
RidTimeSlot       == 30   \* 0x1E
RidTimeSlot2      == 31   \* 0x1F
RidChatMessage    == 32   \* 0x20
RidTimeSlotAck    == 34   \* 0x22
RidEndTimer       == 47   \* 0x2F

MsgChat       == 16       \* 0x10, no scope field
MsgChatExtra  == 32       \* 0x20, scope field present
ScopeAll      == 0

NoErr == "nil"

----------------------------------------------------------------------------
(* PacketBuffer primitives.  Positions are 0-based as in the source. *)

\* the size counts four header bytes that are not in the buffer
Size_WithHeader(b) == Len(b) + 4

Size(b) == Len(b)

\* the bytes are dropped from the end of the slice
Skip_FromEnd(b, n) == SubSeq(b, 1, Len(b) - n)

Skip(b, n) == SubSeq(b, n + 1, Len(b))

WriteBlob(b, v) == b \o v

WriteUInt8(b, v) == b \o <<v % U8>>

WriteUInt16(b, v) == b \o <<v % U8, (v \div U8) % U8>>

WriteUInt32(b, v) ==
    b \o <<v % U8, (v \div U8) % U8, (v \div (U8 * U8)) % U8, (v \div (U8 * U8 * U8)) % U8>>

WriteBool(b, v) == b \o <<IF v THEN 1 ELSE 0>>

\* a port written low byte first, as the integers are
WritePort_LittleEndian(b, v) == b \o <<v % U8, (v \div U8) % U8>>

WritePort(b, v) == b \o <<(v \div U8) % U8, v % U8>>

\* net.IP is a byte slice: nil (<<>>), 4 bytes, or 16 bytes
IPv4len == 4

v4InV6Prefix == <<0, 0, 0, 0, 0, 0, 0, 0, 0, 0, 255, 255>>

IPv4zero == v4InV6Prefix \o <<0, 0, 0, 0>>

\* ip.To4(): the 4-byte form of an IPv4 address, <<>> (nil) for anything else
To4(ip) ==
    IF Len(ip) = IPv4len THEN ip
    ELSE IF Len(ip) = 16 /\ SubSeq(ip, 1, 12) = v4InV6Prefix THEN SubSeq(ip, 13, 16)
    ELSE <<>>

\* ip.Equal(x) for a 4-byte or nil ip and a 16-byte x
IPEqual(ip, x) ==
    IF Len(ip) = Len(x) THEN ip = x
    ELSE Len(ip) = IPv4len /\ Len(x) = 16
         /\ SubSeq(x, 1, 12) = v4InV6Prefix /\ ip = SubSeq(x, 13, 16)

\* an address that is not IPv4 is reported and nothing is appended
WriteIP_NoPadding(b, v) ==
    IF To4(v) # <<>>
    THEN [b |-> WriteBlob(b, To4(v)), err |-> NoErr]
    ELSE [b |-> b, err |-> "ErrInvalidIP4"]

\* WriteIP: [b, err]
WriteIP(b, v) ==
    IF To4(v) # <<>>
    THEN [b |-> WriteBlob(b, To4(v)), err |-> NoErr]
    ELSE [b |-> WriteUInt32(b, 0), err |-> "ErrInvalidIP4"]

WriteString(b, s) == WriteUInt8(WriteBlob(b, s), 0)

\* copy(b[p:], v): copies min(len(b) - p, len(v)) bytes; requires p <= len(b)
WriteBlobAt(b, p, v) ==
    [i \in 1..Len(b) |-> IF i > p /\ i <= p + Len(v) THEN v[i - p] ELSE b[i]]

WriteUInt8At(b, p, v) == [b EXCEPT ![p + 1] = v % U8]

\* the two bytes of the patch in network order
WriteUInt16At_BigEndian(b, p, v) == [b EXCEPT ![p + 1] = (v \div U8) % U8, ![p + 2] = v % U8]

WriteUInt16At(b, p, v) == [b EXCEPT ![p + 1] = v % U8, ![p + 2] = (v \div U8) % U8]

WriteUInt32At(b, p, v) ==
    [b EXCEPT ![p + 1] = v % U8, ![p + 2] = (v \div U8) % U8,
              ![p + 3] = (v \div (U8 * U8)) % U8, ![p + 4] = (v \div (U8 * U8 * U8)) % U8]

WriteBoolAt(b, p, v) == [b EXCEPT ![p + 1] = IF v THEN 1 ELSE 0]

WritePortAt(b, p, v) == [b EXCEPT ![p + 1] = (v \div U8) % U8, ![p + 2] = v % U8]

\* WriteIPAt: [b, err]
WriteIPAt(b, p, v) ==
    IF To4(v) # <<>>
    THEN [b |-> WriteBlobAt(b, p, To4(v)), err |-> NoErr]
    ELSE [b |-> WriteUInt32At(b, p, 0), err |-> "ErrInvalidIP4"]

WriteStringAt(b, p, s) == WriteUInt8At(WriteBlobAt(b, p, s), p + Len(s), 0)

\* the slice ends one byte early
ReadBlob_Short(b, n) == IF n > 0 THEN SubSeq(b, 1, n - 1) ELSE <<>>

\* value returned by ReadBlob(n); the caller continues with Skip(b, n)
ReadBlob(b, n) == IF n > 0 THEN SubSeq(b, 1, n) ELSE <<>>

ReadUInt8(b) == b[1]

\* the two bytes are taken in network order
ReadUInt16_BigEndian(b) == b[1] * U8 + b[2]

ReadUInt16(b) == b[2] * U8 + b[1]

ReadUInt32(b) == b[4] * (U8 * U8 * U8) + b[3] * (U8 * U8) + b[2] * U8 + b[1]

ReadBool(b) == b[1] > 0

ReadPort(b) == b[2] + b[1] * U8

\* value returned by ReadIP; the caller continues with Skip(b, IPv4len)
ReadIP(b) ==
    LET r == ReadBlob(b, IPv4len)
    IN  IF IPEqual(r, IPv4zero) THEN <<>> ELSE r

\* bytes.IndexByte(b, 0), 0-based, -1 when there is no zero byte
IndexZero(b) ==
    IF \E i \in 1..Len(b) : b[i] = 0
    THEN (CHOOSE i \in 1..Len(b) : b[i] = 0 /\ \A j \in 1..(i - 1) : b[j] # 0) - 1
    ELSE -1

\* the terminator is left in the buffer
ReadString_KeepTerminator(b) ==
    LET pos == IndexZero(b)
    IN  IF pos = -1
        THEN [s |-> <<>>, err |-> "ErrNoStringTerminatorFound", rest |-> <<>>]
        ELSE [s |-> SubSeq(b, 1, pos), err |-> NoErr, rest |-> Skip(b, pos)]

\* ReadString: [s, err, rest]
ReadString(b) ==
    LET pos == IndexZero(b)
    IN  IF pos = -1
        THEN [s |-> <<>>, err |-> "ErrNoStringTerminatorFound", rest |-> <<>>]
        ELSE [s |-> SubSeq(b, 1, pos), err |-> NoErr, rest |-> Skip(b, pos + 1)]

----------------------------------------------------------------------------
(* Outcome of a Deserialize call.  err = "panic" stands for the run-time    *)
(* panic of a primitive read that needs more bytes than the buffer holds.  *)

Res(e, r, b) == [err |-> e, rec |-> r, rest |-> b]

NoRec == [kind |-> "none"]

NoRes == Res("none", NoRec, <<>>)

----------------------------------------------------------------------------
(* TimeSlot record *)

ZeroTimeSlot ==
    [kind |-> "TimeSlot", Fragment |-> FALSE, TimeIncrementMS |-> 0, Actions |-> <<>>]

\* mutant: the early versions are forgotten
TimeSlotTag_FragmentOnly(fragment, gv) ==
    IF fragment THEN RidTimeSlot2 ELSE RidTimeSlot

\* the tag chosen by TimeSlot.Serialize
TimeSlotTag(fragment, gv) ==
    IF fragment \/ (gv > 0 /\ gv <= 2) THEN RidTimeSlot2 ELSE RidTimeSlot

RECURSIVE WriteActions(_, _)
WriteActions(b, acts) ==
    IF acts = <<>> THEN b
    ELSE LET a  == Head(acts)
             b1 == WriteUInt8(b, a.PlayerID)
             b2 == WriteUInt16(b1, Len(a.Data) % U16)
         IN  WriteActions(WriteBlob(b2, a.Data), Tail(acts))

\* mutant: the size is measured from the tag instead of from the body
TimeSlotSizeField_FromTag(size, start) == (size - (start - 3)) % U16

\* the value patched into the length placeholder
TimeSlotSizeField(size, start) == (size - start) % U16

TimeSlotSerialize(rec, b, gv) ==
    LET b1    == WriteUInt8(b, TimeSlotTag(rec.Fragment, gv))
        b2    == WriteUInt16(b1, 0)
        start == Size(b2)
        b3    == WriteUInt16(b2, rec.TimeIncrementMS)
        b4    == WriteActions(b3, rec.Actions)
    IN  WriteUInt16At(b4, start - 2, TimeSlotSizeField(Size(b4), start))

\* mutant: the tag alone decides the flag
TimeSlotFragment_AnyVersion(tag, gv) == tag = RidTimeSlot2

\* the Fragment flag computed by TimeSlot.Deserialize
TimeSlotFragment(tag, gv) == tag = RidTimeSlot2 /\ (gv = 0 \/ gv > 2)

\* the test that rejects an action whose data does not fit
TimeSlotSubsizeBad(size, subsize) == size < subsize

\* rec.Actions grown to i+1 elements: a stale element is reused when the
\* slice has the capacity, a zero PlayerAction is appended otherwise
\* the slice is extended to its previous length instead of by one element
GrowActions_NoTruncate(acts, old) ==
    LET i == Len(acts)
    IN  IF Len(old) < i + 1
        THEN Append(acts, [PlayerID |-> 0, Data |-> <<>>])
        ELSE acts \o SubSeq(old, i + 1, Len(old))

GrowActions(acts, old) ==
    LET i == Len(acts)
    IN  IF Len(old) < i + 1
        THEN Append(acts, [PlayerID |-> 0, Data |-> <<>>])
        ELSE Append(acts, old[i + 1])

RECURSIVE TimeSlotLoop(_, _, _, _)
TimeSlotLoop(b, size, rec, old) ==
    IF size >= 3
    THEN LET acts == GrowActions(rec.Actions, old)
             i    == Len(acts)
         IN  IF Size(b) < 1 THEN Res("panic", [rec EXCEPT !.Actions = acts], b)
             ELSE LET pid == ReadUInt8(b)
                      b1  == Skip(b, 1)
                      a1  == [acts EXCEPT ![i].PlayerID = pid]
                      r1  == [rec EXCEPT !.Actions = a1]
                  IN  IF Size(b1) < 2 THEN Res("panic", r1, b1)
                      ELSE LET subsize == ReadUInt16(b1)
                               b2      == Skip(b1, 2)
                           IN  IF TimeSlotSubsizeBad(size, subsize)
                               THEN Res("ErrBadFormat", r1, b2)
                               ELSE IF Size(b2) < subsize THEN Res("panic", r1, b2)
                               ELSE TimeSlotLoop(
                                        Skip(b2, subsize),
                                        size - (3 + subsize),
                                        [rec EXCEPT !.Actions =
                                            [a1 EXCEPT ![i].Data = ReadBlob(b2, subsize)]],
                                        old)
    ELSE IF size # 0 THEN Res("ErrBadFormat", rec, b)
    ELSE Res(NoErr, rec, b)

TimeSlotDeserialize(b, gv, r0) ==
    IF Size(b) < 5 THEN Res("ErrShortBuffer", r0, b)
    ELSE LET r1   == [r0 EXCEPT !.Fragment = TimeSlotFragment(ReadUInt8(b), gv)]
             b1   == Skip(b, 1)
             size == ReadUInt16(b1)
             b2   == Skip(b1, 2)
         IN  IF size < 2 \/ Size(b2) < size THEN Res("ErrShortBuffer", r1, b2)
             ELSE TimeSlotLoop(
                      Skip(b2, 2),
                      size - 2,
                      [r1 EXCEPT !.TimeIncrementMS = ReadUInt16(b2), !.Actions = <<>>],
                      r0.Actions)

----------------------------------------------------------------------------
(* ChatMessage record *)

ZeroChatMessage ==
    [kind |-> "ChatMessage", RecipientIDs |-> <<>>, SenderID |-> 0, Type |-> 0,
     Scope |-> ScopeAll, Content |-> <<>>, NewVal |-> 0]

\* mutant: the terminator of the content is not counted for chat_extra
ChatLength_NoTerminator(type, content) ==
    IF type = MsgChatExtra THEN (5 + Len(content)) % U16
    ELSE IF type = MsgChat THEN (2 + Len(content)) % U16
    ELSE 2

\* mutant: the type byte is not counted for chat
ChatLength_NoType(type, content) ==
    IF type = MsgChatExtra THEN (6 + Len(content)) % U16
    ELSE IF type = MsgChat THEN (1 + Len(content)) % U16
    ELSE 2

\* the value written into the length field by ChatMessage.Serialize
ChatLength(type, content) ==
    IF type = MsgChatExtra THEN (6 + Len(content)) % U16
    ELSE IF type = MsgChat THEN (2 + Len(content)) % U16
    ELSE 2

ChatMessageSerialize(rec, b, gv) ==
    LET b1 == WriteUInt8(b, RidChatMessage)
        b2 == WriteUInt8(b1, rec.SenderID)
        b3 == WriteUInt16(b2, ChatLength(rec.Type, rec.Content))
        b4 == WriteUInt8(b3, rec.Type)
    IN  IF rec.Type = MsgChatExtra THEN WriteString(WriteUInt32(b4, rec.Scope), rec.Content)
        ELSE IF rec.Type = MsgChat THEN WriteString(b4, rec.Content)
        ELSE WriteUInt8(b4, rec.NewVal)

\* unicode.IsPrint on a rune of the ASCII range
IsPrint(c) == c >= 32 /\ c <= 126

\* strings.IndexFunc(s, !unicode.IsPrint) != -1
HasNonPrintable(s) == \E i \in 1..Len(s) : ~IsPrint(s[i])

\* mutant: strings that run past the declared length are accepted
ChatSizeBad_PastAccepted(size) == size > 0

\* the size test made once all strings of the message are read
ChatSizeBad(size) == size # 0

\* the continuation strings of a chat message (nwg quirk)
RECURSIVE ChatExtraStrings(_, _, _)
ChatExtraStrings(b, size, rec) ==
    IF size > 0
    THEN LET rs == ReadString(b)
         IN  IF rs.err # NoErr THEN Res(rs.err, rec, rs.rest)
             ELSE IF HasNonPrintable(rs.s) THEN Res("ErrBadFormat", rec, rs.rest)
             ELSE ChatExtraStrings(rs.rest, size - (Len(rs.s) + 1),
                                   [rec EXCEPT !.Content = @ \o rs.s])
    ELSE IF ChatSizeBad(size) THEN Res("ErrBadFormat", rec, b)
    ELSE Res(NoErr, rec, b)

\* case MsgChat of ChatMessage.Deserialize (MsgChatExtra falls through to it)
ChatContent(b, size, rec) ==
    LET rs == ReadString(b)
        r1 == [rec EXCEPT !.Content = rs.s]
    IN  IF rs.err # NoErr THEN Res(rs.err, r1, rs.rest)
        ELSE ChatExtraStrings(rs.rest, size - (2 + Len(rs.s)), r1)

\* the size a buffer must have before ChatMessage.Deserialize reads from it
ChatMinSize == 3

ChatMessageDeserialize(b, gv, r0) ==
    IF Size(b) < ChatMinSize THEN Res("ErrShortBuffer", r0, b)
    ELSE LET b1 == Skip(b, 1)
             r1 == [r0 EXCEPT !.RecipientIDs = <<>>, !.SenderID = ReadUInt8(b1),
                              !.Scope = ScopeAll, !.NewVal = 0, !.Content = <<>>]
             b2 == Skip(b1, 1)
         IN  IF Size(b2) < 2 THEN Res("panic", r1, b2)
             ELSE LET size == ReadUInt16(b2)
                      b3   == Skip(b2, 2)
                  IN  IF size < 2 \/ Size(b3) < size THEN Res("ErrShortBuffer", r1, b3)
                      ELSE LET r2 == [r1 EXCEPT !.Type = ReadUInt8(b3)]
                               b4 == Skip(b3, 1)
                           IN  IF r2.Type = MsgChatExtra
                               THEN IF size < 6 THEN Res("ErrBadFormat", r2, b4)
                                    ELSE ChatContent(Skip(b4, 4), size - 4,
                                                     [r2 EXCEPT !.Scope = ReadUInt32(b4)])
                               ELSE IF r2.Type = MsgChat THEN ChatContent(b4, size, r2)
                               ELSE IF size # 2 THEN Res("ErrBadFormat", r2, b4)
                               ELSE Res(NoErr, [r2 EXCEPT !.NewVal = ReadUInt8(b4)], Skip(b4, 1))

----------------------------------------------------------------------------
(* TimeSlotAck record *)

ZeroTimeSlotAck == [kind |-> "TimeSlotAck", Checksum |-> <<>>]

\* the tag chosen by TimeSlotAck.Serialize
TimeSlotAckTag(gv) == IF gv = 0 \/ gv > 2 THEN RidTimeSlotAck ELSE RidChatMessage

TimeSlotAckSerialize(rec, b, gv) ==
    WriteBlob(WriteUInt8(WriteUInt8(b, TimeSlotAckTag(gv)), Len(rec.Checksum) % U8),
              rec.Checksum)

TimeSlotAckDeserialize(b, gv, r0) ==
    IF Size(b) < 2 THEN Res("ErrShortBuffer", r0, b)
    ELSE LET b1   == Skip(b, 1)
             size == ReadUInt8(b1)
             b2   == Skip(b1, 1)
         IN  IF Size(b2) < size THEN Res("ErrShortBuffer", r0, b2)
             ELSE Res(NoErr, [r0 EXCEPT !.Checksum = ReadBlob(b2, size)], Skip(b2, size))

----------------------------------------------------------------------------
(* PlayerInfo record *)

ZeroPlayerInfo == [kind |-> "PlayerInfo", ID |-> 0, Name |-> <<>>, Race |-> 0, JoinCounter |-> 0]

PlayerInfoSerializeContent(rec, b) ==
    LET b1 == WriteString(WriteUInt8(b, rec.ID), rec.Name)
    IN  IF rec.JoinCounter = 0 /\ rec.Race = 0
        THEN WriteUInt8(WriteUInt8(b1, 1), 0)
        ELSE WriteUInt32(WriteUInt32(WriteUInt8(b1, 8), rec.JoinCounter), rec.Race)

PlayerInfoSerialize(rec, b, gv) ==
    WriteUInt32(PlayerInfoSerializeContent(rec, WriteUInt8(b, RidPlayerInfo)), 0)

PlayerInfoDeserializeContent(b, r0) ==
    IF Size(b) < 4 THEN Res("ErrShortBuffer", r0, b)
    ELSE LET r1 == [r0 EXCEPT !.ID = ReadUInt8(b)]
             rs == ReadString(Skip(b, 1))
             r2 == [r1 EXCEPT !.Name = rs.s]
         IN  IF rs.err # NoErr THEN Res(rs.err, r2, rs.rest)
             ELSE IF Size(rs.rest) < 2 THEN Res("ErrShortBuffer", r2, rs.rest)
             ELSE LET len == ReadUInt8(rs.rest)
                      b1  == Skip(rs.rest, 1)
                  IN  IF Size(b1) < len THEN Res("ErrShortBuffer", r2, b1)
                      ELSE IF len \in {1, 2}
                           THEN Res(NoErr, [r2 EXCEPT !.JoinCounter = 0, !.Race = 0], Skip(b1, len))
                      ELSE IF len = 0
                           THEN Res(NoErr, [r2 EXCEPT !.JoinCounter = 0, !.Race = 0], b1)
                      ELSE IF len = 8
                           THEN Res(NoErr,
                                    [r2 EXCEPT !.JoinCounter = ReadUInt32(b1),
                                               !.Race = ReadUInt32(Skip(b1, 4))],
                                    Skip(b1, 8))
                      ELSE Res("ErrUnexpectedConst", r2, b1)

PlayerInfoDeserialize(b, gv, r0) ==
    IF Size(b) < 9 THEN Res("ErrShortBuffer", r0, b)
    ELSE LET c == PlayerInfoDeserializeContent(Skip(b, 1), r0)
         IN  IF c.err # NoErr THEN c
             ELSE IF Size(c.rest) < 4 THEN Res("ErrShortBuffer", c.rec, c.rest)
             ELSE Res(NoErr, c.rec, Skip(c.rest, 4))

----------------------------------------------------------------------------
(* PlayerLeft record *)

ZeroPlayerLeft == [kind |-> "PlayerLeft", Local |-> FALSE, PlayerID |-> 0, Reason |-> 0, Counter |-> 0]

PlayerLeftSerialize(rec, b, gv) ==
    LET b1 == WriteUInt8(b, RidPlayerLeft)
        b2 == WriteUInt32(b1, IF rec.Local THEN 12 ELSE 1)
        b3 == WriteUInt8(b2, rec.PlayerID)
    IN  WriteUInt32(WriteUInt32(b3, rec.Reason), rec.Counter)

PlayerLeftDeserialize(b, gv, r0) ==
    IF Size(b) < 14 THEN Res("ErrShortBuffer", r0, b)
    ELSE LET b1 == Skip(b, 1)
             c  == ReadUInt32(b1)
             b2 == Skip(b1, 4)
         IN  IF c \notin {1, 14, 12} THEN Res("ErrUnexpectedConst", r0, b2)
             ELSE Res(NoErr,
                      [r0 EXCEPT !.Local = (c = 12), !.PlayerID = ReadUInt8(b2),
                                 !.Reason = ReadUInt32(Skip(b2, 1)),
                                 !.Counter = ReadUInt32(Skip(b2, 5))],
                      Skip(b2, 9))

----------------------------------------------------------------------------
(* GameStart, CountDownStart and CountDownEnd records: the last two embed  *)
(* GameStart and inherit its Deserialize.                                  *)

ZeroGameStart == [kind |-> "GameStart"]

ZeroCountDownStart == [kind |-> "CountDownStart"]

ZeroCountDownEnd == [kind |-> "CountDownEnd"]

GameStartSerialize(rec, b, gv) == WriteUInt32(WriteUInt8(b, RidGameStart), 1)

CountDownStartSerialize(rec, b, gv) == WriteUInt32(WriteUInt8(b, RidCountDownStart), 1)

CountDownEndSerialize(rec, b, gv) == WriteUInt32(WriteUInt8(b, RidCountDownEnd), 1)

GameStartDeserialize(b, gv, r0) ==
    IF Size(b) < 5 THEN Res("ErrShortBuffer", r0, b)
    ELSE IF ReadUInt32(Skip(b, 1)) # 1 THEN Res("ErrUnexpectedConst", r0, Skip(b, 5))
    ELSE Res(NoErr, r0, Skip(b, 5))

----------------------------------------------------------------------------
(* EndTimer record *)

ZeroEndTimer == [kind |-> "EndTimer", GameOver |-> FALSE, CountDownSec |-> 0]

\* protocol.Buffer bool32: a 4-byte 0/1
WriteBool32(b, v) == WriteUInt32(b, IF v THEN 1 ELSE 0)

ReadBool32(b) == ReadUInt32(b) > 0

EndTimerSerialize(rec, b, gv) ==
    WriteUInt32(WriteBool32(WriteUInt8(b, RidEndTimer), rec.GameOver), rec.CountDownSec)

EndTimerDeserialize(b, gv, r0) ==
    IF Size(b) < 9 THEN Res("ErrShortBuffer", r0, b)
    ELSE Res(NoErr,
             [r0 EXCEPT !.GameOver = ReadBool32(Skip(b, 1)),
                        !.CountDownSec = ReadUInt32(Skip(b, 5))],
             Skip(b, 9))

----------------------------------------------------------------------------
(* Record factory and dispatch on the record kind *)

\* mutant: tag 0x20 is a ChatMessage in every version
ChatOrAck_Always(gv) == "ChatMessage"

\* mutant: version 2 is taken for a late version
ChatOrAck_OffByOne(gv) == IF gv = 0 \/ gv > 1 THEN "ChatMessage" ELSE "TimeSlotAck"

\* the record kind that tag 0x20 constructs
ChatOrAck(gv) == IF gv = 0 \/ gv > 2 THEN "ChatMessage" ELSE "TimeSlotAck"

\* DefaultFactory: the kind of the record constructed for a tag, "none" on a miss
DefaultFactory(tag, gv) ==
    CASE tag = 16                -> "GameInfo"
      [] tag = RidPlayerInfo     -> "PlayerInfo"
      [] tag = RidPlayerLeft     -> "PlayerLeft"
      [] tag = 25                -> "SlotInfo"
      [] tag = RidCountDownStart -> "CountDownStart"
      [] tag = RidCountDownEnd   -> "CountDownEnd"
      [] tag = RidGameStart      -> "GameStart"
      [] tag = RidTimeSlot2      -> "TimeSlot"
      [] tag = RidTimeSlot       -> "TimeSlot"
      [] tag = RidChatMessage    -> ChatOrAck(gv)
      [] tag = RidTimeSlotAck    -> "TimeSlotAck"
      [] tag = 35                -> "Desync"
      [] tag = RidEndTimer       -> "EndTimer"
      [] tag = 57                -> "PlayerExtra"
      [] OTHER                   -> "none"

\* the record kinds whose codec is modelled
Kinds ==
    {"TimeSlot", "ChatMessage", "TimeSlotAck", "PlayerInfo", "PlayerLeft",
     "GameStart", "CountDownStart", "CountDownEnd", "EndTimer"}

\* the empty record a factory constructor returns
Zero(kind) ==
    CASE kind = "TimeSlot"       -> ZeroTimeSlot
      [] kind = "ChatMessage"    -> ZeroChatMessage
      [] kind = "TimeSlotAck"    -> ZeroTimeSlotAck
      [] kind = "PlayerInfo"     -> ZeroPlayerInfo
      [] kind = "PlayerLeft"     -> ZeroPlayerLeft
      [] kind = "GameStart"      -> ZeroGameStart
      [] kind = "CountDownStart" -> ZeroCountDownStart
      [] kind = "CountDownEnd"   -> ZeroCountDownEnd
      [] kind = "EndTimer"       -> ZeroEndTimer

\* Record.Serialize: the buffer after rec is appended to b
Serialize(rec, b, gv) ==
    CASE rec.kind = "TimeSlot"       -> TimeSlotSerialize(rec, b, gv)
      [] rec.kind = "ChatMessage"    -> ChatMessageSerialize(rec, b, gv)
      [] rec.kind = "TimeSlotAck"    -> TimeSlotAckSerialize(rec, b, gv)
      [] rec.kind = "PlayerInfo"     -> PlayerInfoSerialize(rec, b, gv)
      [] rec.kind = "PlayerLeft"     -> PlayerLeftSerialize(rec, b, gv)
      [] rec.kind = "GameStart"      -> GameStartSerialize(rec, b, gv)
      [] rec.kind = "CountDownStart" -> CountDownStartSerialize(rec, b, gv)
      [] rec.kind = "CountDownEnd"   -> CountDownEndSerialize(rec, b, gv)
      [] rec.kind = "EndTimer"       -> EndTimerSerialize(rec, b, gv)

\* Record.Deserialize of a record r0 of the given kind
Deserialize(kind, b, gv, r0) ==
    CASE kind = "TimeSlot"       -> TimeSlotDeserialize(b, gv, r0)
      [] kind = "ChatMessage"    -> ChatMessageDeserialize(b, gv, r0)
      [] kind = "TimeSlotAck"    -> TimeSlotAckDeserialize(b, gv, r0)
      [] kind = "PlayerInfo"     -> PlayerInfoDeserialize(b, gv, r0)
      [] kind = "PlayerLeft"     -> PlayerLeftDeserialize(b, gv, r0)
      [] kind \in {"GameStart", "CountDownStart", "CountDownEnd"}
                                 -> GameStartDeserialize(b, gv, r0)
      [] kind = "EndTimer"       -> EndTimerDeserialize(b, gv, r0)

----------------------------------------------------------------------------
(* Inputs of the model *)

Min(a, b) == IF a < b THEN a ELSE b

SeqsUpTo(S, n) == UNION {[1..k -> S] : k \in 0..n}

Fill(n, c) == [i \in 1..n |-> c]

GameVersions == {0, 1, 2, 30}

\* message types: chat, chat_extra and one of the types that carry NewVal
ChatTypes == {MsgChat, MsgChatExtra, 17}

\* content a buffer may hold before a record is serialized into it
Prefixes == {<<255, 9>>}

\* the longest action data whose length a uint16 holds
BigData == Fill(U16 - 1, 7)

\* the shortest content that makes 6 + len(Content) wrap
BigContent == Fill(U16 - 6, 104)

\* a checksum longer than a uint8 counts
BigChecksum == Fill(U8, 5)

\* action data: runs of one byte up to the bound, and one mixed value
DataValues == {Fill(k, 7) : k \in 0..MaxDataLen} \cup {<<0, 255>>}

ActionPool == [PlayerID : {1, 2}, Data : DataValues]

TimeSlotValues ==
    {[kind |-> "TimeSlot", Fragment |-> f, TimeIncrementMS |-> t, Actions |-> a] :
        f \in BOOLEAN, t \in {0, 300}, a \in SeqsUpTo(ActionPool, MaxActions)}
    \cup
    {[kind |-> "TimeSlot", Fragment |-> f, TimeIncrementMS |-> 100,
      Actions |-> <<[PlayerID |-> 1, Data |-> BigData]>>] : f \in BOOLEAN}

ChatMessageValues ==
    {[kind |-> "ChatMessage", RecipientIDs |-> <<>>, SenderID |-> s, Type |-> t,
      Scope |-> sc, Content |-> c, NewVal |-> n] :
        s \in {1, 2}, t \in ChatTypes,
        sc \in {ScopeAll, 16909060}, c \in SeqsUpTo({104, 105}, MaxContent), n \in {0, 3}}
    \cup
    {[kind |-> "ChatMessage", RecipientIDs |-> <<>>, SenderID |-> 1, Type |-> t,
      Scope |-> ScopeAll, Content |-> BigContent, NewVal |-> 0] : t \in {MsgChat, MsgChatExtra}}

TimeSlotAckValues ==
    {[kind |-> "TimeSlotAck", Checksum |-> c] : c \in {<<>>, <<9, 0>>, <<1, 2, 3, 4>>, BigChecksum}}

PlayerInfoValues ==
    {[kind |-> "PlayerInfo", ID |-> i, Name |-> n, Race |-> r, JoinCounter |-> j] :
        i \in {1, 2}, n \in {<<>>, <<104, 105>>}, r \in {0, 1}, j \in {0, 258}}

PlayerLeftValues ==
    {[kind |-> "PlayerLeft", Local |-> l, PlayerID |-> i, Reason |-> r, Counter |-> c] :
        l \in BOOLEAN, i \in {1, 2}, r \in {1, 7}, c \in {0, 66000}}

EndTimerValues ==
    {[kind |-> "EndTimer", GameOver |-> g, CountDownSec |-> c] : g \in BOOLEAN, c \in {0, 300}}

Values(kind) ==
    CASE kind = "TimeSlot"       -> TimeSlotValues
      [] kind = "ChatMessage"    -> ChatMessageValues
      [] kind = "TimeSlotAck"    -> TimeSlotAckValues
      [] kind = "PlayerInfo"     -> PlayerInfoValues
      [] kind = "PlayerLeft"     -> PlayerLeftValues
      [] kind = "EndTimer"       -> EndTimerValues
      [] OTHER                   -> {Zero(kind)}

\* received TimeSlot records: tag, declared length, then arbitrary bytes
RawTimeSlot ==
    {WriteUInt16(<<tag>>, d) \o body :
        tag \in {RidTimeSlot, RidTimeSlot2}, d \in 0..MaxDecl, body \in SeqsUpTo({0, 1, 2}, MaxBody)}

\* received ChatMessage records: tag, sender, declared length, type, then arbitrary bytes
RawChatMessage ==
    {WriteUInt8(WriteUInt16(<<RidChatMessage, 2>>, d), t) \o body :
        d \in 0..MaxDecl, t \in ChatTypes,
        body \in SeqsUpTo({0, 1, 104}, MaxBody)}

----------------------------------------------------------------------------
(* The codec session *)

\* no buffer operation has been recorded
NoOp == [op |-> "none", arg |-> <<>>, pos |-> 0, ret |-> <<>>, err |-> NoErr, before |-> <<>>]

LedgerIdle == appended = <<>> /\ consumed = 0 /\ patches = 0 /\ last = NoOp

\* w3gdump has not been started
NoDump == [status |-> "off"]

DumpIdle == dump = NoDump

\* cast has not been called
NoStream == [pc |-> "off"]

StreamIdle == stream = NoStream

Init ==
    /\ buf = <<>>
    /\ enc \in GameVersions
    /\ pc = "idle"
    /\ origin = "none"
    /\ val = NoRec
    /\ pre = <<>>
    /\ wire = <<>>
    /\ via = "none"
    /\ res = NoRes
    /\ into = NoRec
    /\ LedgerIdle
    /\ buf2 = <<>>
    /\ DumpIdle
    /\ StreamIdle

\* the caller puts other content into the buffer before the record
WritePrefix ==
    /\ pc = "idle"
    /\ buf = <<>>
    /\ \E p \in Prefixes : buf' = WriteBlob(buf, p)
    /\ UNCHANGED <<enc, pc, origin, val, pre, wire, via, res, into, outsideCodec>>

\* rec.Serialize(buf, enc) for a record of kind k
SerializeRecord(k) ==
    /\ pc = "idle"
    /\ \E v \in Values(k) :
          /\ buf' = Serialize(v, buf, enc)
          /\ val' = v
    /\ pre' = buf
    /\ pc' = "serialized"
    /\ origin' = "serialized"
    /\ UNCHANGED <<enc, wire, via, res, into, outsideCodec>>

\* the reader skips what precedes the record
SkipPrefix ==
    /\ pc = "serialized"
    /\ buf' = Skip(buf, Size(pre))
    /\ pre' = <<>>
    /\ pc' = "ready"
    /\ UNCHANGED <<enc, origin, val, wire, via, res, into, outsideCodec>>

\* only a strict prefix of the serialized record arrives
Truncate ==
    /\ pc = "ready"
    /\ origin = "serialized"
    /\ \E n \in 0..Min(Size(buf) - 1, MaxPrefix) : buf' = SubSeq(buf, 1, n)
    /\ origin' = "prefix"
    /\ UNCHANGED <<enc, pc, val, pre, wire, via, res, into, outsideCodec>>

\* bytes of a replay that are to be decoded as a TimeSlot
ReceiveTimeSlot ==
    /\ pc = "idle"
    /\ buf = <<>>
    /\ \E raw \in RawTimeSlot : buf' = raw
    /\ val' = ZeroTimeSlot
    /\ origin' = "raw"
    /\ pc' = "ready"
    /\ UNCHANGED <<enc, pre, wire, via, res, into, outsideCodec>>

\* bytes of a replay that are to be decoded as a ChatMessage
ReceiveChatMessage ==
    /\ pc = "idle"
    /\ buf = <<>>
    /\ \E raw \in RawChatMessage : buf' = raw
    /\ val' = ZeroChatMessage
    /\ origin' = "raw"
    /\ pc' = "ready"
    /\ UNCHANGED <<enc, pre, wire, via, res, into, outsideCodec>>

\* rec.Deserialize(buf, enc) on a new record of the expected kind
DirectDeserialize ==
    /\ pc = "ready"
    /\ LET r == Deserialize(val.kind, buf, enc, Zero(val.kind))
       IN  /\ res' = r
           /\ buf' = r.rest
    /\ into' = Zero(val.kind)
    /\ wire' = buf
    /\ via' = "direct"
    /\ pc' = "decoded"
    /\ UNCHANGED <<enc, origin, val, pre, outsideCodec>>

\* the record is constructed by DefaultFactory from the tag byte, then decoded
FactoryDeserialize ==
    /\ pc = "ready"
    /\ Size(buf) >= 1
    /\ LET k == DefaultFactory(buf[1], enc)
       IN  /\ k \in Kinds
           /\ LET r == Deserialize(k, buf, enc, Zero(k))
              IN  /\ res' = r
                  /\ buf' = r.rest
                  /\ into' = Zero(k)
    /\ wire' = buf
    /\ via' = "factory"
    /\ pc' = "decoded"
    /\ UNCHANGED <<enc, origin, val, pre, outsideCodec>>

\* a record of the kind that has been decoded into before (FactoryCache)
Used(kind) ==
    CASE kind = "TimeSlot" ->
            [kind |-> "TimeSlot", Fragment |-> TRUE, TimeIncrementMS |-> 9,
             Actions |-> <<[PlayerID |-> 5, Data |-> <<9, 9, 9>>],
                           [PlayerID |-> 6, Data |-> <<8>>],
                           [PlayerID |-> 7, Data |-> <<>>]>>]
      [] kind = "ChatMessage" ->
            [kind |-> "ChatMessage", RecipientIDs |-> <<3>>, SenderID |-> 9,
             Type |-> MsgChatExtra, Scope |-> 5, Content |-> <<120, 121, 122>>, NewVal |-> 9]
      [] kind = "TimeSlotAck" -> [kind |-> "TimeSlotAck", Checksum |-> <<9, 9, 9, 9, 9>>]
      [] kind = "PlayerInfo" ->
            [kind |-> "PlayerInfo", ID |-> 9, Name |-> <<120, 121>>, Race |-> 9, JoinCounter |-> 9]
      [] kind = "PlayerLeft" ->
            [kind |-> "PlayerLeft", Local |-> TRUE, PlayerID |-> 9, Reason |-> 9, Counter |-> 9]
      [] kind = "EndTimer" -> [kind |-> "EndTimer", GameOver |-> TRUE, CountDownSec |-> 9]
      [] OTHER -> Zero(kind)

\* the record is handed out by a FactoryCache, which returns the record it
\* returned for this tag before, and the bytes are decoded into it
CachedDeserialize ==
    /\ pc = "ready"
    /\ Size(buf) >= 1
    /\ LET k == DefaultFactory(buf[1], enc)
       IN  /\ k \in Kinds
           /\ LET r == Deserialize(k, buf, enc, Used(k))
              IN  /\ res' = r
                  /\ buf' = r.rest
                  /\ into' = Used(k)
    /\ wire' = buf
    /\ via' = "cache"
    /\ pc' = "decoded"
    /\ UNCHANGED <<enc, origin, val, pre, outsideCodec>>

Next ==
    \/ WritePrefix
    \/ \E k \in Kinds : SerializeRecord(k)
    \/ SkipPrefix
    \/ Truncate
    \/ ReceiveTimeSlot
    \/ ReceiveChatMessage
    \/ DirectDeserialize
    \/ FactoryDeserialize
    \/ CachedDeserialize

Spec == Init /\ [][Next]_vars

----------------------------------------------------------------------------
(* Operations on one PacketBuffer.  The ledger (appended, consumed) records *)
(* what the append and consume operations did; an operation whose index or *)
(* slice expression is out of range panics (err = "panic").  Overwrite     *)
(* operations are applied to a buffer that holds arbitrary bytes.          *)

MaxAppended == 5     \* bytes appended to the buffer in one history
MaxPatches  == 1     \* overwrite operations applied to one buffer
MaxPatchLen == 5     \* size of a buffer that is overwritten

\* byte values stay below 128 so that every 4-byte window is a uint32 below 2^31
UInt8Values == {0, 127}

UInt16Values == {4660, 32512}            \* 0x1234, 0x7F00

UInt32Values == {16909060, 2130706559}   \* 0x01020304, 0x7F00007F

PortValues == {4660, 5984}               \* 0x1234, 0x1760

IPValues ==
    {<<>>, <<1, 2, 3, 4>>, <<0, 0, 0, 0>>,
     v4InV6Prefix \o <<1, 2, 3, 4>>,
     <<32, 1, 0, 0, 0, 0, 0, 0, 0, 0, 0, 0, 0, 0, 0, 1>>}

StringValues == {<<>>, <<104>>, <<104, 105>>, <<104, 0>>}

BlobValues == {<<>>, <<7>>, <<0, 7>>}

BlobLens == -1..2

Positions == 0..Size(buf)

\* no codec session is running
CodecIdle ==
    /\ enc = 0
    /\ pc = "idle"
    /\ origin = "none"
    /\ val = NoRec
    /\ pre = <<>>
    /\ wire = <<>>
    /\ via = "none"
    /\ res = NoRes
    /\ into = NoRec

Op(o, a, p, r, e) == [op |-> o, arg |-> a, pos |-> p, ret |-> r, err |-> e, before |-> buf]

\* an append operation of w bytes that leaves nb in the buffer
Appending(o, a, w, nb, e) ==
    /\ Len(appended) + w <= MaxAppended
    /\ buf' = nb
    /\ appended' = appended \o SubSeq(nb, Len(nb) - Min(w, Len(nb)) + 1, Len(nb))
    /\ last' = Op(o, a, 0, <<>>, e)
    /\ UNCHANGED <<consumed, patches, codecVars, buf2, dump, stream>>

\* a consume operation of n bytes that returns r and leaves nb in the buffer
Consuming(o, a, n, nb, r, e) ==
    /\ IF Size(buf) >= n
       THEN /\ buf' = nb
            /\ consumed' = consumed + n
            /\ last' = Op(o, a, 0, r, e)
       ELSE /\ last' = Op(o, a, 0, <<>>, "panic")
            /\ UNCHANGED <<buf, consumed>>
    /\ UNCHANGED <<appended, patches, codecVars, buf2, dump, stream>>

\* an overwrite operation at position p that leaves nb in the buffer
Overwriting(o, a, p, nb, e) ==
    /\ patches < MaxPatches
    /\ buf' = nb
    /\ patches' = patches + 1
    /\ last' = Op(o, a, p, <<>>, e)
    /\ UNCHANGED <<appended, consumed, codecVars, buf2, dump, stream>>

\* an overwrite operation of fixed width: the highest index is assigned first
OverwritingFixed(o, a, p, width, nb) ==
    IF p + width <= Size(buf)
    THEN Overwriting(o, a, p, nb, NoErr)
    ELSE Overwriting(o, a, p, buf, "panic")

BufferInit ==
    /\ buf = <<>>
    /\ CodecIdle
    /\ LedgerIdle
    /\ buf2 = <<>>
    /\ DumpIdle
    /\ StreamIdle

CallWriteBlob == \E v \in BlobValues : Appending("WriteBlob", v, Len(v), WriteBlob(buf, v), NoErr)

CallWriteUInt8 == \E v \in UInt8Values : Appending("WriteUInt8", v, 1, WriteUInt8(buf, v), NoErr)

CallWriteUInt16 == \E v \in UInt16Values : Appending("WriteUInt16", v, 2, WriteUInt16(buf, v), NoErr)

CallWriteUInt32 == \E v \in UInt32Values : Appending("WriteUInt32", v, 4, WriteUInt32(buf, v), NoErr)

CallWriteBool == \E v \in BOOLEAN : Appending("WriteBool", v, 1, WriteBool(buf, v), NoErr)

CallWritePort == \E v \in PortValues : Appending("WritePort", v, 2, WritePort(buf, v), NoErr)

CallWriteIP ==
    \E v \in IPValues :
        LET w == WriteIP(buf, v) IN Appending("WriteIP", v, IPv4len, w.b, w.err)

CallWriteString == \E s \in StringValues : Appending("WriteString", s, Len(s) + 1, WriteString(buf, s), NoErr)

CallSkip == \E n \in 0..2 : Consuming("Skip", n, n, Skip(buf, n), <<>>, NoErr)

CallReadBlob ==
    \E n \in BlobLens :
        IF n > 0
        THEN Consuming("ReadBlob", n, n, Skip(buf, n), ReadBlob(buf, n), NoErr)
        ELSE Consuming("ReadBlob", n, 0, buf, ReadBlob(buf, n), NoErr)

CallReadUInt8 == Consuming("ReadUInt8", <<>>, 1, Skip(buf, 1), ReadUInt8(buf), NoErr)

CallReadUInt16 == Consuming("ReadUInt16", <<>>, 2, Skip(buf, 2), ReadUInt16(buf), NoErr)

CallReadUInt32 == Consuming("ReadUInt32", <<>>, 4, Skip(buf, 4), ReadUInt32(buf), NoErr)

CallReadBool == Consuming("ReadBool", <<>>, 1, Skip(buf, 1), ReadBool(buf), NoErr)

CallReadPort == Consuming("ReadPort", <<>>, 2, Skip(buf, 2), ReadPort(buf), NoErr)

CallReadIP == Consuming("ReadIP", <<>>, IPv4len, Skip(buf, IPv4len), ReadIP(buf), NoErr)

\* the string and its terminator are consumed, or all bytes when there is none
CallReadString ==
    LET r == ReadString(buf)
        n == IF IndexZero(buf) = -1 THEN Size(buf) ELSE IndexZero(buf) + 1
    IN  Consuming("ReadString", <<>>, n, r.rest, r.s, r.err)

BufferNext ==
    \/ CallWriteBlob
    \/ CallWriteUInt8
    \/ CallWriteUInt16
    \/ CallWriteUInt32
    \/ CallWriteBool
    \/ CallWritePort
    \/ CallWriteIP
    \/ CallWriteString
    \/ CallSkip
    \/ CallReadBlob
    \/ CallReadUInt8
    \/ CallReadUInt16
    \/ CallReadUInt32
    \/ CallReadBool
    \/ CallReadPort
    \/ CallReadIP
    \/ CallReadString

BufferSpec == BufferInit /\ [][BufferNext]_vars

\* the buffers overwrite operations are applied to
PatchBuffers == SeqsUpTo({0, 9}, MaxPatchLen)

PatchInit ==
    /\ buf \in PatchBuffers
    /\ CodecIdle
    /\ LedgerIdle
    /\ buf2 = <<>>
    /\ DumpIdle
    /\ StreamIdle

CallWriteBlobAt ==
    \E p \in Positions, v \in BlobValues :
        Overwriting("WriteBlobAt", v, p, WriteBlobAt(buf, p, v), NoErr)

CallWriteUInt8At ==
    \E p \in Positions, v \in UInt8Values :
        OverwritingFixed("WriteUInt8At", v, p, 1, WriteUInt8At(buf, p, v))

CallWriteUInt16At ==
    \E p \in Positions, v \in UInt16Values :
        OverwritingFixed("WriteUInt16At", v, p, 2, WriteUInt16At(buf, p, v))

CallWriteUInt32At ==
    \E p \in Positions, v \in UInt32Values :
        OverwritingFixed("WriteUInt32At", v, p, 4, WriteUInt32At(buf, p, v))

CallWriteBoolAt ==
    \E p \in Positions, v \in BOOLEAN :
        OverwritingFixed("WriteBoolAt", v, p, 1, WriteBoolAt(buf, p, v))

CallWritePortAt ==
    \E p \in Positions, v \in PortValues :
        OverwritingFixed("WritePortAt", v, p, 2, WritePortAt(buf, p, v))

\* an IPv4 address is copied as a blob; anything else is patched as uint32 0
CallWriteIPAt ==
    \E p \in Positions, v \in IPValues :
        IF To4(v) # <<>> \/ p + 4 <= Size(buf)
        THEN LET w == WriteIPAt(buf, p, v) IN Overwriting("WriteIPAt", v, p, w.b, w.err)
        ELSE Overwriting("WriteIPAt", v, p, buf, "panic")

\* the bytes of s are copied before the terminator is stored
CallWriteStringAt ==
    \E p \in Positions, s \in StringValues :
        IF p + Len(s) + 1 <= Size(buf)
        THEN Overwriting("WriteStringAt", s, p, WriteStringAt(buf, p, s), NoErr)
        ELSE Overwriting("WriteStringAt", s, p, WriteBlobAt(buf, p, s), "panic")

PatchNext ==
    \/ CallWriteBlobAt
    \/ CallWriteUInt8At
    \/ CallWriteUInt16At
    \/ CallWriteUInt32At
    \/ CallWriteBoolAt
    \/ CallWritePortAt
    \/ CallWriteIPAt
    \/ CallWriteStringAt

PatchSpec == PatchInit /\ [][PatchNext]_vars

----------------------------------------------------------------------------
(* BNCS packets: the frame {0xFF, id, length u16 le, body}, the variants    *)
(* Ping, JoinChannel and UnknownPacket, and the packet tests that          *)
(* serialize a catalog value and decode it again.                           *)

ProtocolSig    == 255   \* 0xFF
PidPing        == 37    \* 0x25
PidJoinChannel == 12    \* 0x0C
BncsHeaderSize == 4

TestBufferSize == 2048  \* make([]byte, 2048)

MaxFrameBody == 2       \* body bytes of a received frame
MaxFrameDecl == 6       \* declared length of a received frame

BncsKinds == {"Ping", "JoinChannel", "UnknownPacket"}

BncsZero(kind) ==
    CASE kind = "Ping"          -> [kind |-> "Ping", Payload |-> 0]
      [] kind = "JoinChannel"   -> [kind |-> "JoinChannel", Flags |-> 0, Channel |-> <<>>]
      [] kind = "UnknownPacket" -> [kind |-> "UnknownPacket", ID |-> 0, Blob |-> <<>>]

Pid(kind) == IF kind = "Ping" THEN PidPing ELSE PidJoinChannel

\* write 0xFF, the id and a placeholder for the length
WriteBncsHeader(b, id) == WriteUInt16(WriteUInt8(WriteUInt8(b, ProtocolSig), id), 0)

\* patch the placeholder of the frame that starts at `start` with its size
PatchBncsLength(b, start) == WriteUInt16At(b, start + 2, Size(b) - start)

PingSerialize(rec, b) ==
    PatchBncsLength(WriteUInt32(WriteBncsHeader(b, PidPing), rec.Payload), Size(b))

JoinChannelSerialize(rec, b) ==
    PatchBncsLength(
        WriteString(WriteUInt32(WriteBncsHeader(b, PidJoinChannel), rec.Flags), rec.Channel),
        Size(b))

\* the blob is the frame
UnknownPacketSerialize(rec, b) == WriteBlob(b, rec.Blob)

BncsSerialize(rec, b) ==
    CASE rec.kind = "Ping"          -> PingSerialize(rec, b)
      [] rec.kind = "JoinChannel"   -> JoinChannelSerialize(rec, b)
      [] rec.kind = "UnknownPacket" -> UnknownPacketSerialize(rec, b)

\* bncs.SerializePacket: the packet serializes itself into the buffer
SerializePacket(b, rec) == BncsSerialize(rec, b)

\* the checks on the 4 header bytes: "nil" or the error
BncsHeaderErr(b) ==
    IF Size(b) < BncsHeaderSize THEN "ErrInvalidPacketSize"
    ELSE IF Len(b) < BncsHeaderSize THEN "panic"
    ELSE IF ReadUInt8(b) # ProtocolSig THEN "ErrInvalidChecksum"
    ELSE IF ReadUInt16(Skip(b, 2)) < BncsHeaderSize THEN "ErrInvalidPacketSize"
    ELSE IF Size(b) < ReadUInt16(Skip(b, 2)) THEN "ErrInvalidPacketSize"
    ELSE IF Len(b) < ReadUInt16(Skip(b, 2)) THEN "panic"
    ELSE NoErr

BncsId(b) == ReadUInt8(Skip(b, 1))

BncsLength(b) == ReadUInt16(Skip(b, 2))

\* the body slice of the frame at the head of b
BncsBody(b) == SubSeq(b, BncsHeaderSize + 1, BncsLength(b))

PingDeserializeBody(body, r0) ==
    IF Size(body) # 4 THEN [err |-> "ErrInvalidPacketSize", rec |-> r0]
    ELSE IF Len(body) < 4 THEN [err |-> "panic", rec |-> r0]
    ELSE [err |-> NoErr, rec |-> [r0 EXCEPT !.Payload = ReadUInt32(body)]]

JoinChannelDeserializeBody(body, r0) ==
    IF Size(body) < 5 THEN [err |-> "ErrInvalidPacketSize", rec |-> r0]
    ELSE IF Len(body) < 4 THEN [err |-> "panic", rec |-> r0]
    ELSE LET flags == ReadUInt32(body)
             s     == ReadString(Skip(body, 4))
             r1    == [r0 EXCEPT !.Flags = flags]
         IN  IF s.err # NoErr THEN [err |-> s.err, rec |-> r1]
             ELSE IF Size(s.rest) # 0
             THEN [err |-> "ErrInvalidPacketSize", rec |-> [r1 EXCEPT !.Channel = s.s]]
             ELSE [err |-> NoErr, rec |-> [r1 EXCEPT !.Channel = s.s]]

\* UnknownPacket keeps the id and the four header bytes
UnknownPacketDeserialize(b, r0) ==
    IF BncsHeaderErr(b) # NoErr THEN Res(BncsHeaderErr(b), r0, b)
    ELSE Res(NoErr,
             [r0 EXCEPT !.ID = BncsId(b), !.Blob = ReadBlob(b, BncsHeaderSize)],
             Skip(b, BncsLength(b)))

\* pkt.Deserialize(buf) of variant `kind`
BncsDeserialize(kind, b, r0) ==
    IF kind = "UnknownPacket" THEN UnknownPacketDeserialize(b, r0)
    ELSE IF BncsHeaderErr(b) # NoErr THEN Res(BncsHeaderErr(b), r0, b)
    ELSE IF BncsId(b) # Pid(kind) THEN Res("ErrInvalidChecksum", r0, b)
    ELSE LET d == IF kind = "Ping" THEN PingDeserializeBody(BncsBody(b), r0)
                  ELSE JoinChannelDeserializeBody(BncsBody(b), r0)
         IN  Res(d.err, d.rec, Skip(b, BncsLength(b)))

\* the dispatch tables: variant for (id, direction), "none" on a miss
BncsFactory(id, dir) ==
    IF id = PidPing THEN "Ping"
    ELSE IF id = PidJoinChannel /\ dir = "client" THEN "JoinChannel"
    ELSE "none"

\* DeserializeClientPacket / DeserializeServerPacket
DeserializePacket(b, dir) ==
    IF BncsHeaderErr(b) # NoErr THEN Res(BncsHeaderErr(b), NoRec, b)
    ELSE LET k == BncsFactory(BncsId(b), dir)
         IN  IF k = "none"
             THEN UnknownPacketDeserialize(b, BncsZero("UnknownPacket"))
             ELSE BncsDeserialize(k, b, BncsZero(k))

TheVoid == <<84, 104, 101, 32, 86, 111, 105, 100>>

UnknownValue == [kind |-> "UnknownPacket", ID |-> 255, Blob |-> <<ProtocolSig, 255, 4, 0>>]

PingValues == {[kind |-> "Ping", Payload |-> n] : n \in {0, 123}}

JoinChannelValues ==
    {[kind |-> "JoinChannel", Flags |-> f, Channel |-> c] :
        f \in {0, 1}, c \in {<<>>, TheVoid}}

\* the values of TestClientPackets and of TestServerPackets
ClientCatalog == {UnknownValue} \cup PingValues \cup JoinChannelValues

ServerCatalog == {UnknownValue} \cup PingValues

\* frames as they arrive from a connection
RawFrames ==
    {<<sig, id, d, 0>> \o body :
        sig \in {ProtocolSig, 0}, id \in {PidPing, PidJoinChannel, 254, 255},
        d \in 3..MaxFrameDecl, body \in SeqsUpTo({0, 1}, MaxFrameBody)}

\* the buffers the tests hand to Deserialize to provoke an error
BadBuffers == {<<>>, Fill(TestBufferSize, 0)}

BncsInit ==
    /\ buf = <<>>
    /\ CodecIdle
    /\ LedgerIdle
    /\ buf2 = <<>>
    /\ DumpIdle
    /\ StreamIdle

\* pkt.Serialize(&buf) and bncs.SerializePacket(&buf2, pkt)
TestSerialize ==
    /\ pc = "idle"
    /\ buf = <<>>
    /\ \E v \in ClientCatalog \cup ServerCatalog :
          /\ buf' = BncsSerialize(v, buf)
          /\ buf2' = SerializePacket(buf2, v)
          /\ val' = v
    /\ pc' = "ready"
    /\ origin' = "serialized"
    /\ UNCHANGED <<enc, pre, wire, via, res, into, ledgerVars, dump, stream>>

\* a frame arrives
ReceiveFrame ==
    /\ pc = "idle"
    /\ buf = <<>>
    /\ \E raw \in RawFrames : buf' = raw
    /\ pc' = "ready"
    /\ origin' = "raw"
    /\ UNCHANGED <<enc, val, pre, wire, via, res, into, ledgerVars, buf2, dump, stream>>

\* the buffer is replaced by one that holds no frame
TestBadBuffer ==
    /\ pc = "idle"
    /\ buf = <<>>
    /\ \E k \in BncsKinds : val' = BncsZero(k)
    /\ \E b \in BadBuffers : buf' = b
    /\ pc' = "ready"
    /\ origin' = "bad"
    /\ UNCHANGED <<enc, pre, wire, via, res, into, ledgerVars, buf2, dump, stream>>

Decoded(r, how) ==
    /\ res' = r
    /\ buf' = r.rest
    /\ wire' = buf
    /\ via' = how
    /\ pc' = "decoded"
    /\ UNCHANGED <<enc, origin, val, pre, ledgerVars, buf2, dump, stream>>

DeserializeClientPacket ==
    /\ pc = "ready"
    /\ origin # "bad"
    /\ into' = NoRec
    /\ Decoded(DeserializePacket(buf, "client"), "client")

DeserializeServerPacket ==
    /\ pc = "ready"
    /\ origin # "bad"
    /\ into' = NoRec
    /\ Decoded(DeserializePacket(buf, "server"), "server")

\* pkt.Deserialize(&buf) on the packet of the test
TestDeserialize ==
    /\ pc = "ready"
    /\ origin # "raw"
    /\ into' = val
    /\ Decoded(BncsDeserialize(val.kind, buf, val), "direct")

BncsNext ==
    \/ TestSerialize
    \/ ReceiveFrame
    \/ TestBadBuffer
    \/ DeserializeClientPacket
    \/ DeserializeServerPacket
    \/ TestDeserialize

BncsSpec == BncsInit /\ [][BncsNext]_vars

----------------------------------------------------------------------------
(* w3gdump: the loop over the records of a replay *)

\* longest record stream
MaxRecords == 3

\* hdr.GameVersion.Version on either side of the 24 player patch
HeaderVersions == {28, 29}

\* var maxp uint8 = 24; if hdr.GameVersion.Version < 29 { maxp = 12 }
Maxp(version) == IF version < 29 THEN 12 ELSE 24

Slot(team, color) == [Team |-> team, Color |-> color]

Rec(kind) == [kind |-> kind, Slots |-> <<>>]

SlotInfoRec(slots) == [kind |-> "SlotInfo", Slots |-> slots]

\* what print(hdr) prints
HeaderRec == Rec("Header")

\* the records of the replays: chat, the records that end the header part,
\* a time slot, and slot tables with players, observers and used colors
DumpRecords ==
    {Rec("ChatMessage"), Rec("TimeSlot"), Rec("CountDownStart"), Rec("CountDownEnd"), Rec("GameStart"),
     SlotInfoRec(<<Slot(0, 5), Slot(12, 5), Slot(1, 5)>>),
     SlotInfoRec(<<Slot(24, 0), Slot(0, 0)>>)}

RECURSIVE Recolor_CountAll(_, _, _)
\* every slot takes a color number, also the ones that keep their color
Recolor_CountAll(slots, maxp, c) ==
    IF slots = <<>> THEN <<>>
    ELSE LET s == Head(slots)
         IN  IF s.Team >= maxp
             THEN <<s>> \o Recolor_CountAll(Tail(slots), maxp, (c + 1) % 256)
             ELSE <<[s EXCEPT !.Color = c]>> \o Recolor_CountAll(Tail(slots), maxp, (c + 1) % 256)

RECURSIVE Recolor(_, _, _)
\* for i := range v.Slots { if Team >= maxp { continue }; Color = c; c++ }
Recolor(slots, maxp, c) ==
    IF slots = <<>> THEN <<>>
    ELSE LET s == Head(slots)
         IN  IF s.Team >= maxp
             THEN <<s>> \o Recolor(Tail(slots), maxp, c)
             ELSE <<[s EXCEPT !.Color = c]>> \o Recolor(Tail(slots), maxp, (c + 1) % 256)

\* the type switch of the callback when an encoder exists: the record as it
\* is after the switch, and whether it is written
Sanitize(r, maxp) ==
    IF r.kind = "ChatMessage" THEN [rec |-> r, write |-> FALSE]
    ELSE IF r.kind = "SlotInfo" THEN [rec |-> [r EXCEPT !.Slots = Recolor(r.Slots, maxp, 0)], write |-> TRUE]
    ELSE [rec |-> r, write |-> TRUE]

\* only the start of the game ends the header part
EndsHeader_GameStartOnly(r) == r.kind = "GameStart"

\* case *w3g.CountDownStart, *w3g.CountDownEnd, *w3g.GameStart
EndsHeader(r) == r.kind \in {"CountDownStart", "CountDownEnd", "GameStart"}

DumpInit ==
    /\ buf = <<>>
    /\ CodecIdle
    /\ LedgerIdle
    /\ buf2 = <<>>
    /\ DumpIdle
    /\ StreamIdle

DumpUnchanged == UNCHANGED <<buf, codecVars, ledgerVars, buf2, stream>>

\* FindHeader, DecodeHeader, os.Create and NewEncoder, then print(hdr)
DumpStart ==
    /\ dump.status = "off"
    /\ \E rs \in SeqsUpTo(DumpRecords, MaxRecords), v \in HeaderVersions,
          s \in BOOLEAN, h \in BOOLEAN,
          e \in {NoErr, "Cannot find header", "DecodeHeader error", "Open error", "NewEncoder error"} :
          /\ e \in {"Open error", "NewEncoder error"} => s
          /\ dump' = [status   |-> IF e = NoErr THEN "running" ELSE "fatal",
                      err      |-> e,
                      version  |-> v,
                      sanitize |-> s,
                      header   |-> h,
                      records  |-> rs,
                      idx      |-> 0,
                      skip     |-> FALSE,
                      passed   |-> <<>>,
                      wrote    |-> NoErr,
                      printed  |-> IF e = NoErr THEN <<HeaderRec>> ELSE <<>>]
    /\ DumpUnchanged

\* the callback of data.ForEach on the next record; wr is the result of
\* enc.WriteRecord when it is called
DumpRecord ==
    /\ dump.status = "running"
    /\ dump.idx < Len(dump.records)
    /\ \E wr \in {NoErr, "write"} :
          LET r      == dump.records[dump.idx + 1]
              san    == IF dump.sanitize THEN Sanitize(r, Maxp(dump.version))
                        ELSE [rec |-> r, write |-> FALSE]
              failed == san.write /\ wr # NoErr
              ends   == ~dump.skip /\ dump.header /\ EndsHeader(r)
              break  == ~failed /\ ends /\ ~dump.sanitize
              skip   == IF ~failed /\ ends /\ dump.sanitize THEN TRUE ELSE dump.skip
          IN  /\ ~san.write => wr = NoErr
              /\ dump' = [dump EXCEPT
                    !.idx     = @ + 1,
                    !.passed  = IF san.write THEN Append(@, san.rec) ELSE @,
                    !.wrote   = IF san.write THEN wr ELSE @,
                    !.skip    = skip,
                    !.printed = IF ~failed /\ ~break /\ ~skip THEN Append(@, san.rec) ELSE @,
                    !.status  = IF failed THEN "fatal" ELSE IF break THEN "break" ELSE @,
                    !.err     = IF failed THEN "Data error" ELSE IF break THEN "Early break" ELSE @]
    /\ DumpUnchanged

\* data.ForEach fails to decode the next record
DumpDataError ==
    /\ dump.status = "running"
    /\ dump' = [dump EXCEPT !.status = "fatal", !.err = "Data error"]
    /\ DumpUnchanged

\* data.ForEach returns without a data error; enc.Close() when an encoder exists
DumpClose ==
    /\ \/ dump.status = "running" /\ dump.idx = Len(dump.records)
       \/ dump.status = "break"
    /\ \E cl \in {NoErr, "Save error"} :
          /\ ~dump.sanitize => cl = NoErr
          /\ dump' = [dump EXCEPT
                !.status = IF cl = NoErr THEN "exit" ELSE "fatal",
                !.err    = IF cl = NoErr THEN NoErr ELSE cl]
    /\ DumpUnchanged

DumpNext ==
    \/ DumpStart
    \/ DumpRecord
    \/ DumpDataError
    \/ DumpClose

DumpSpec == DumpInit /\ [][DumpNext]_vars

----------------------------------------------------------------------------
(* w3gdump -stream: cast, the handshake with the joining client and the
   replay of the records *)

\* longest list of replay records
MaxCastRecords == 3

\* most packets the connection's event loop hands to the handlers
MaxEvents == 1

\* HostCounter of the advertised game
HostCounter == 1

\* EntryKey of the advertised game, 0xDEADBEEF, kept as text
EntryKey == "DEADBEEF"

Pkt(t, id, arg) == [t |-> t, id |-> id, arg |-> arg]

\* a packet of the block that is being sent; checked tells whether the error
\* of conn.Send is looked at
Checked(p) == [pkt |-> p, checked |-> TRUE]

Unchecked(p) == [pkt |-> p, checked |-> FALSE]

ReplaySlot(id, occupied, computer) == [PlayerID |-> id, Occupied |-> occupied, Computer |-> computer]

CastRec(kind, id, arg) == [kind |-> kind, PlayerID |-> id, arg |-> arg]

\* replay.HostPlayer.ID of the replays
HostPlayers == {1, 2}

\* replay.Players of the replays, by ID
ReplayPlayers == <<1, 2>>

\* slot tables: two humans, a human and a computer, no occupied slot
ReplaySlots ==
    {<<ReplaySlot(1, TRUE, FALSE), ReplaySlot(2, TRUE, FALSE)>>,
     <<ReplaySlot(1, TRUE, FALSE), ReplaySlot(2, TRUE, TRUE)>>,
     <<ReplaySlot(2, FALSE, FALSE)>>}

\* replay.Records: leaves of both players, the records that are forwarded
\* and one that is not
CastRecords ==
    {CastRec("PlayerLeft", 1, "left"), CastRec("PlayerLeft", 2, "left"),
     CastRec("TimeSlot", 0, "actions"), CastRec("Desync", 0, "desync"),
     CastRec("ChatMessage", 1, "chat"), CastRec("GameStart", 0, "")}

\* what the client may send
ClientPackets ==
    {Pkt("Join", HostCounter, EntryKey), Pkt("Join", HostCounter, "00000000"),
     Pkt("Join", 2, EntryKey),
     Pkt("MapState", 0, "ready"), Pkt("MapState", 0, "not ready"),
     Pkt("GameLoaded", 0, ""), Pkt("Leave", 0, ""), Pkt("Message", 0, ".speed 2")}

RECURSIVE LastHuman(_, _)
\* for _, s := range replay.Slots { if occupied && !computer { hostID = s.PlayerID } }
LastHuman(slots, h) ==
    IF slots = <<>> THEN h
    ELSE LET s == Head(slots)
         IN  LastHuman(Tail(slots), IF s.Occupied /\ ~s.Computer THEN s.PlayerID ELSE h)

\* var hostID = replay.HostPlayer.ID, then the loop over the slots
HostID(slots, hostPlayer) == LastHuman(slots, hostPlayer)

RECURSIVE ForOthers(_, _, _)
\* for _, p := range replay.Players { if p.ID == hostID { continue }; Send(t{p.ID}) }
ForOthers(players, hostID, t) ==
    IF players = <<>> THEN <<>>
    ELSE IF Head(players) = hostID THEN ForOthers(Tail(players), hostID, t)
    ELSE <<Checked(Pkt(t, Head(players), ""))>> \o ForOthers(Tail(players), hostID, t)

\* the switch on the first packet
JoinAccepted(p) == p.t = "Join" /\ p.id = HostCounter /\ p.arg = EntryKey

RejectReason(p) == IF p.t = "Join" THEN "WrongKey" ELSE "Invalid"

\* every PlayerLeft is forwarded, the one of the host too
RecordPacket_ForwardHost(rec, hostID) ==
    IF rec.kind = "PlayerLeft" THEN <<Checked(Pkt("PlayerLeft", rec.PlayerID, rec.arg))>>
    ELSE IF rec.kind = "TimeSlot" THEN <<Checked(Pkt("TimeSlot", 0, rec.arg))>>
    ELSE IF rec.kind = "Desync" THEN <<Checked(Pkt("Desync", 0, rec.arg))>>
    ELSE IF rec.kind = "ChatMessage" THEN <<Checked(Pkt("MessageRelay", rec.PlayerID, rec.arg))>>
    ELSE <<>>

\* the switch on the type of a replay record: the packet to send, if any
RecordPacket(rec, hostID) ==
    IF rec.kind = "PlayerLeft"
    THEN IF rec.PlayerID = hostID THEN <<>>
         ELSE <<Checked(Pkt("PlayerLeft", rec.PlayerID, rec.arg))>>
    ELSE IF rec.kind = "TimeSlot" THEN <<Checked(Pkt("TimeSlot", 0, rec.arg))>>
    ELSE IF rec.kind = "Desync" THEN <<Checked(Pkt("Desync", 0, rec.arg))>>
    ELSE IF rec.kind = "ChatMessage" THEN <<Checked(Pkt("MessageRelay", rec.PlayerID, rec.arg))>>
    ELSE <<>>

\* say(s): a chat message of the host
Say(hostID, s) == Pkt("MessageRelay", hostID, s)

CastInit ==
    /\ buf = <<>>
    /\ CodecIdle
    /\ LedgerIdle
    /\ buf2 = <<>>
    /\ DumpIdle
    /\ StreamIdle

CastUnchanged == UNCHANGED <<buf, codecVars, ledgerVars, buf2, dump>>

\* cast returns err
Return(err) == [stream EXCEPT !.pc = "returned", !.ret = err, !.todo = <<>>]

\* w3g.Open, ListenTCP, NewAdvertiser, AcceptTCP, NewW3GSConn
CastOpen ==
    /\ stream.pc = "off"
    /\ \E slots \in ReplaySlots, hp \in HostPlayers,
          rs \in SeqsUpTo(CastRecords, MaxCastRecords), e \in {NoErr, "error"} :
          stream' = [pc      |-> IF e = NoErr THEN "join" ELSE "returned",
                     ret     |-> IF e = NoErr THEN "running" ELSE e,
                     slots   |-> slots,
                     records |-> rs,
                     host    |-> hp,
                     hostID  |-> hp,
                     idx     |-> 0,
                     todo    |-> <<>>,
                     sent    |-> <<>>,
                     rcvd    |-> <<>>,
                     events  |-> 0,
                     closed  |-> FALSE]
    /\ CastUnchanged

\* conn.NextPacket and the switch on the first packet; with the right Join
\* the host is chosen and SlotInfoJoin, the PlayerInfo packets and MapCheck
\* are to be sent
CastJoin ==
    /\ stream.pc = "join"
    /\ \E e \in {NoErr, "error"}, p \in ClientPackets :
          IF e # NoErr THEN stream' = Return(e)
          ELSE IF JoinAccepted(p)
          THEN LET h == HostID(stream.slots, stream.host)
               IN  stream' = [stream EXCEPT
                        !.rcvd   = Append(@, p),
                        !.hostID = h,
                        !.todo   = <<Checked(Pkt("SlotInfoJoin", h, ""))>>
                                   \o ForOthers(ReplayPlayers, h, "PlayerInfo")
                                   \o <<Checked(Pkt("MapCheck", 0, ""))>>,
                        !.pc     = "mapstate"]
          ELSE stream' = [Return("errUnexpectedPacket") EXCEPT
                        !.rcvd = Append(@, p),
                        !.sent = Append(@, Pkt("RejectJoin", 0, RejectReason(p)))]
    /\ CastUnchanged

\* conn.Send of the next packet of the block; it fails on a closed connection
CastSend ==
    /\ stream.pc \notin {"off", "returned"}
    /\ stream.todo # <<>>
    /\ \E ok \in BOOLEAN :
          /\ stream.closed => ~ok
          /\ LET s == Head(stream.todo)
             IN  stream' = IF ok \/ ~s.checked
                           THEN [stream EXCEPT !.sent = Append(@, s.pkt), !.todo = Tail(@)]
                           ELSE [Return("error") EXCEPT !.sent = Append(@, s.pkt)]
    /\ CastUnchanged

\* conn.NextPacket after MapCheck: a MapState that is ready, or errMapUnavailable
CastMapState ==
    /\ stream.pc = "mapstate"
    /\ stream.todo = <<>>
    /\ \E e \in {NoErr, "error"}, p \in ClientPackets :
          IF e # NoErr THEN stream' = Return(e)
          ELSE IF p.t = "MapState" /\ p.arg = "ready"
          THEN stream' = [stream EXCEPT
                        !.rcvd = Append(@, p),
                        !.todo = <<Unchecked(Pkt("CountDownStart", 0, "")),
                                   Unchecked(Pkt("CountDownEnd", 0, ""))>>
                                 \o ForOthers(ReplayPlayers, stream.hostID, "PlayerLoaded"),
                        !.pc   = "loaded"]
          ELSE stream' = [Return("errMapUnavailable") EXCEPT !.rcvd = Append(@, p)]
    /\ CastUnchanged

\* conn.NextPacket after the PlayerLoaded packets: GameLoaded, or
\* errUnexpectedPacket; then the handlers are installed, conn.Run is started
\* and PlayerLoaded of the host is to be sent
CastGameLoaded ==
    /\ stream.pc = "loaded"
    /\ stream.todo = <<>>
    /\ \E e \in {NoErr, "error"}, p \in ClientPackets :
          IF e # NoErr THEN stream' = Return(e)
          ELSE IF p.t = "GameLoaded"
          THEN stream' = [stream EXCEPT
                        !.rcvd = Append(@, p),
                        !.todo = <<Checked(Pkt("PlayerLoaded", stream.hostID, ""))>>,
                        !.pc   = "replay"]
          ELSE stream' = [Return("errUnexpectedPacket") EXCEPT !.rcvd = Append(@, p)]
    /\ CastUnchanged

\* the loop over replay.Records: the next record gives a packet to send or is
\* passed over
CastRecord ==
    /\ stream.pc = "replay"
    /\ stream.ret = "running"
    /\ stream.todo = <<>>
    /\ stream.idx < Len(stream.records)
    /\ stream' = [stream EXCEPT
            !.idx  = @ + 1,
            !.todo = RecordPacket(stream.records[stream.idx + 1], stream.hostID)]
    /\ CastUnchanged

\* return nil after the last record
CastReturn ==
    /\ stream.pc = "replay"
    /\ stream.todo = <<>>
    /\ stream.idx = Len(stream.records)
    /\ stream' = Return(NoErr)
    /\ CastUnchanged

\* conn.Run hands a Leave to its handler: LeaveAck, conn.Close
OnLeave ==
    /\ stream.pc = "replay"
    /\ ~stream.closed
    /\ stream.events < MaxEvents
    /\ stream' = [stream EXCEPT
            !.rcvd   = Append(@, Pkt("Leave", 0, "")),
            !.sent   = Append(@, Pkt("LeaveAck", 0, "")),
            !.events = @ + 1,
            !.closed = TRUE]
    /\ CastUnchanged

\* conn.Run hands a Message with a .speed command to its handler: say(...)
OnMessage ==
    /\ stream.pc = "replay"
    /\ ~stream.closed
    /\ stream.events < MaxEvents
    /\ stream' = [stream EXCEPT
            !.rcvd   = Append(@, Pkt("Message", 0, ".speed 2")),
            !.sent   = Append(@, Say(stream.hostID, "Replay speed: 2x")),
            !.events = @ + 1]
    /\ CastUnchanged

\* conn.Run ends with an error: conn.Close
OnConnError ==
    /\ stream.pc = "replay"
    /\ ~stream.closed
    /\ stream' = [stream EXCEPT !.closed = TRUE]
    /\ CastUnchanged

CastNext ==
    \/ CastOpen
    \/ CastJoin
    \/ CastSend
    \/ CastMapState
    \/ CastGameLoaded
    \/ CastRecord
    \/ CastReturn
    \/ OnLeave
    \/ OnMessage
    \/ OnConnError

CastSpec == CastInit /\ [][CastNext]_vars

----------------------------------------------------------------------------
(* Vocabulary of the properties *)

RECURSIVE ActionsLen(_)
\* bytes the actions of a TimeSlot occupy: 3 + len(data) each
ActionsLen(acts) ==
    IF acts = <<>> THEN 0 ELSE 3 + Len(Head(acts).Data) + ActionsLen(Tail(acts))

\* bytes a TimeSlot contributes after its length field
BodyLen(v) == 2 + ActionsLen(v.Actions)

\* every length the record's format stores holds the length it stands for
Fits(v) ==
    CASE v.kind = "TimeSlot"    -> BodyLen(v) < 65536
      [] v.kind = "ChatMessage" ->
            IF v.Type = 32 THEN 6 + Len(v.Content) < 65536
            ELSE IF v.Type = 16 THEN 2 + Len(v.Content) < 65536
            ELSE TRUE
      [] v.kind = "TimeSlotAck" -> Len(v.Checksum) < 256
      [] OTHER                  -> TRUE

EarlyVersion == enc >= 1 /\ enc <= 2

\* the part of a record value that its serialized form carries
Carried(v) ==
    CASE v.kind = "TimeSlot"    -> [v EXCEPT !.Fragment = @ /\ ~EarlyVersion]
      [] v.kind = "ChatMessage" ->
            [v EXCEPT !.Scope   = IF v.Type = 32 THEN @ ELSE 0,
                      !.Content = IF v.Type \in {16, 32} THEN @ ELSE <<>>,
                      !.NewVal  = IF v.Type \in {16, 32} THEN 0 ELSE @]
      [] OTHER                  -> v

Consumed == Len(wire) - Len(res.rest)

RoundTrip(k, how) ==
    pc = "decoded" /\ origin = "serialized" /\ via = how /\ val.kind = k

----------------------------------------------------------------------------
(* C1: TimeSlot.Deserialize undoes TimeSlot.Serialize *)

\* C1 as stated: for every TimeSlot v and every game version, Deserialize of
\* the bytes written by Serialize succeeds, consumes all of them and yields v,
\* Fragment flag included (stated here for the values whose lengths fit
\* their length fields, which the claim fails on already).
C1_AsStated ==
    RoundTrip("TimeSlot", "direct") /\ Fits(val) =>
        res.err = "nil" /\ res.rest = <<>> /\ res.rec = val

\* C1 amended: for every TimeSlot v whose body is at most 65535 bytes the
\* round trip succeeds, consumes all bytes and yields v's time increment and
\* actions; the Fragment flag is v's when game_version is 0 or above 2 and is
\* false when game_version is 1 or 2.
C1_RoundTrip ==
    RoundTrip("TimeSlot", "direct") /\ Fits(val) =>
        /\ res.err = "nil"
        /\ res.rest = <<>>
        /\ res.rec.TimeIncrementMS = val.TimeIncrementMS
        /\ res.rec.Actions = val.Actions
        /\ res.rec.Fragment = (val.Fragment /\ ~EarlyVersion)

C1_Witness ==
    /\ RoundTrip("TimeSlot", "direct")
    /\ val.Fragment /\ enc = 1
    /\ Len(val.Actions) = 2 /\ val.Actions[2].Data # <<>>
    /\ res.err = "nil" /\ ~res.rec.Fragment

----------------------------------------------------------------------------
(* C2: the tag a record writes leads the factory back to the record *)

----------------------------------------------------------------------------
(* C3: DefaultFactory dispatch of the version dependent tags *)

\* C3: tag 0x20 constructs a ChatMessage when game_version is 0 or above 2
\* and a TimeSlotAck otherwise; tag 0x22 constructs a TimeSlotAck and tags
\* 0x1E and 0x1F a TimeSlot for every game version.
C3_FactoryDispatch ==
    pc = "decoded" /\ via = "factory" =>
        /\ wire[1] = 32 =>
              res.rec.kind = (IF enc = 0 \/ enc > 2 THEN "ChatMessage" ELSE "TimeSlotAck")
        /\ wire[1] = 34 => res.rec.kind = "TimeSlotAck"
        /\ wire[1] \in {30, 31} => res.rec.kind = "TimeSlot"

C3_Witness ==
    /\ pc = "decoded" /\ via = "factory" /\ origin = "raw"
    /\ wire[1] = 32 /\ enc = 2
    /\ res.rec.kind = "TimeSlotAck"

----------------------------------------------------------------------------
(* C4: the tag TimeSlot.Serialize emits *)

\* C4: the tag is 0x1F exactly when Fragment is set or 1 <= game_version <= 2,
\* and 0x1E otherwise.
C4_TimeSlotTag ==
    pc = "serialized" /\ val.kind = "TimeSlot" =>
        buf[Len(pre) + 1] = (IF val.Fragment \/ EarlyVersion THEN 31 ELSE 30)

C4_Witness ==
    /\ pc = "serialized" /\ val.kind = "TimeSlot"
    /\ enc = 2 /\ ~val.Fragment
    /\ buf[Len(pre) + 1] = 31

----------------------------------------------------------------------------
(* C5: the bytes of a concrete ChatMessage *)

HiMessage(v) ==
    /\ v.kind = "ChatMessage"
    /\ v.SenderID = 2 /\ v.Type = 32 /\ v.Scope = 0 /\ v.Content = <<104, 105>>

\* C5 as stated: {sender 2, chat_extra, scope all, "hi"} serializes as
\* 20 02 09 00 20 00 00 00 00 68 69 00 (length field 0x0009).
C5_AsStated ==
    pc = "serialized" /\ HiMessage(val) =>
        SubSeq(buf, Len(pre) + 1, Len(buf)) = <<32, 2, 9, 0, 32, 0, 0, 0, 0, 104, 105, 0>>

\* C5 amended: the message serializes as 20 02 08 00 20 00 00 00 00 68 69 00:
\* the length field is 0x0008, the number of bytes that follow it.
C5_HiBytes ==
    pc = "serialized" /\ HiMessage(val) =>
        SubSeq(buf, Len(pre) + 1, Len(buf)) = <<32, 2, 8, 0, 32, 0, 0, 0, 0, 104, 105, 0>>

C5_Witness ==
    pc = "serialized" /\ HiMessage(val) /\ pre # <<>> /\ Len(buf) = Len(pre) + 12

----------------------------------------------------------------------------
(* C6: ChatMessage.Deserialize undoes ChatMessage.Serialize *)

\* C6 as stated: for every ChatMessage v the round trip succeeds, consumes
\* all bytes and yields v's sender, type, scope, content and new_val (stated
\* here for the values whose length fits the length field, which the claim
\* fails on already).
C6_AsStated ==
    RoundTrip("ChatMessage", "direct") /\ Fits(val) =>
        /\ res.err = "nil" /\ res.rest = <<>>
        /\ res.rec.SenderID = val.SenderID /\ res.rec.Type = val.Type
        /\ res.rec.Scope = val.Scope /\ res.rec.Content = val.Content
        /\ res.rec.NewVal = val.NewVal

\* C6 amended: for every ChatMessage v whose length fits the length field
\* the written length equals the number of bytes after the field, the round
\* trip succeeds, consumes all bytes and yields v's sender and type; scope
\* is v's for chat_extra and 0 otherwise, content is v's for chat and
\* chat_extra and empty otherwise, new_val is 0 for chat and chat_extra and
\* v's otherwise.
C6_RoundTrip ==
    RoundTrip("ChatMessage", "direct") /\ Fits(val) =>
        /\ wire[4] * 256 + wire[3] = Len(wire) - 4
        /\ res.err = "nil" /\ res.rest = <<>>
        /\ res.rec.SenderID = val.SenderID /\ res.rec.Type = val.Type
        /\ res.rec.Scope = (IF val.Type = 32 THEN val.Scope ELSE 0)
        /\ res.rec.Content = (IF val.Type \in {16, 32} THEN val.Content ELSE <<>>)
        /\ res.rec.NewVal = (IF val.Type \in {16, 32} THEN 0 ELSE val.NewVal)

C6_Witness ==
    /\ RoundTrip("ChatMessage", "direct")
    /\ val.Type = 16 /\ val.Scope # 0 /\ Len(val.Content) = 2
    /\ res.err = "nil" /\ res.rec.Scope = 0 /\ res.rec.Content = val.Content

----------------------------------------------------------------------------
(* C7: the back-patched length of a TimeSlot *)

TimeSlotField == buf[Len(pre) + 3] * 256 + buf[Len(pre) + 2]

\* C7 as stated: for every TimeSlot the length field after the tag equals the
\* number of bytes the record contributes after the field, 2 plus
\* 3 + len(data) per action, and the bytes already in the buffer are unchanged.
C7_AsStated ==
    pc = "serialized" /\ val.kind = "TimeSlot" =>
        /\ TimeSlotField = Len(buf) - Len(pre) - 3
        /\ TimeSlotField = BodyLen(val)
        /\ SubSeq(buf, 1, Len(pre)) = pre

\* C7 amended: the record contributes 2 plus 3 + len(data) per action bytes
\* after the field, the field holds that number modulo 65536 (the number
\* itself when it is at most 65535), and the bytes already in the buffer are
\* unchanged.
C7_LengthField ==
    pc = "serialized" /\ val.kind = "TimeSlot" =>
        /\ Len(buf) - Len(pre) - 3 = BodyLen(val)
        /\ TimeSlotField = BodyLen(val) % 65536
        /\ SubSeq(buf, 1, Len(pre)) = pre

C7_Witness ==
    /\ pc = "serialized" /\ val.kind = "TimeSlot"
    /\ pre # <<>>
    /\ Len(val.Actions) = 2 /\ val.Actions[1].Data # <<>>
    /\ TimeSlotField = BodyLen(val)

----------------------------------------------------------------------------
(* C8: TimeSlot.Deserialize stays inside the declared length *)

RECURSIVE ActionsFit(_)
\* body is a sequence of actions each of which lies inside body
ActionsFit(body) ==
    \/ body = <<>>
    \/ /\ Len(body) >= 3
       /\ body[3] * 256 + body[2] <= Len(body) - 3
       /\ ActionsFit(SubSeq(body, 4 + body[3] * 256 + body[2], Len(body)))

\* C8: on every input TimeSlot.Deserialize succeeds having consumed exactly
\* 3 + declared_length bytes or returns an error; it returns ErrBadFormat when
\* an action's data does not fit the declared length that remains after its
\* header or the length does not end at zero; it never reads past offset
\* 3 + declared_length nor past the end of the buffer.
C8_WithinDeclared ==
    pc = "decoded" /\ via = "direct" /\ val.kind = "TimeSlot" /\ origin = "raw" =>
        LET decl == wire[3] * 256 + wire[2]
        IN  /\ res.err # "panic"
            /\ Consumed <= 3 + decl
            /\ res.err = "nil" => Consumed = 3 + decl
            /\ (decl >= 2 /\ Len(wire) >= 3 + decl /\ ~ActionsFit(SubSeq(wire, 6, 3 + decl)))
                  => res.err = "ErrBadFormat"

----------------------------------------------------------------------------
(* C9: a record cut short is answered by an error *)

\* C9: on a strict prefix of a validly serialized record Deserialize returns
\* an error and issues no primitive read that needs more bytes than remain.
C9_NoShortRead ==
    pc = "decoded" /\ via = "direct" /\ origin = "prefix" /\ Fits(val) =>
        res.err \notin {"nil", "panic"}

----------------------------------------------------------------------------
(* C10: the continuation strings of a ChatMessage *)

NonZero(c) == c # 0

\* a chat or chat_extra message was received whose declared length passed
\* the size tests of ChatMessage.Deserialize and holds a first string
ChatDecoded ==
    /\ pc = "decoded" /\ via = "direct" /\ val.kind = "ChatMessage" /\ origin = "raw"
    /\ LET decl  == wire[4] * 256 + wire[3]
           first == IF wire[5] = 32 THEN 10 ELSE 6
       IN  /\ decl >= 2
           /\ Len(wire) - 4 >= decl
           /\ wire[5] = 16 \/ (wire[5] = 32 /\ decl >= 6)
           /\ \E i \in first..(4 + decl) : wire[i] = 0

ChatDecl == wire[4] * 256 + wire[3]

\* the bytes of the declared length that hold the strings
ChatRegion == SubSeq(wire, IF wire[5] = 32 THEN 10 ELSE 6, 4 + ChatDecl)

\* the bytes of the declared length after the first string
ChatContinuation ==
    IF \E i \in 1..Len(ChatRegion) : ChatRegion[i] = 0
    THEN SubSeq(ChatRegion,
                1 + (CHOOSE i \in 1..Len(ChatRegion) :
                        ChatRegion[i] = 0 /\ \A j \in 1..(i - 1) : ChatRegion[j] # 0),
                Len(ChatRegion))
    ELSE <<>>

ChatContinuationPrintable ==
    \A i \in 1..Len(ChatContinuation) :
        ChatContinuation[i] = 0 \/ (ChatContinuation[i] >= 32 /\ ChatContinuation[i] <= 126)

\* C10 as stated: the strings after the first are appended to Content; on success the strings end exactly at the declared length
\* and 4 + declared_length bytes are consumed; strings that end before or past
\* the declared length, and a non-printable continuation string, give
\* ErrBadFormat.
C10_AsStated ==
    ChatDecoded =>
        /\ res.err = "nil" => Consumed = 4 + ChatDecl /\ wire[4 + ChatDecl] = 0
        /\ wire[4 + ChatDecl] # 0 => res.err = "ErrBadFormat"
        /\ ~ChatContinuationPrintable => res.err = "ErrBadFormat"

\* C10 amended: on success the strings end exactly at the declared length,
\* 4 + declared_length bytes are consumed, Content is the concatenation of
\* all strings and every continuation string is printable.  Strings that do
\* not end at the declared length never succeed: the result is ErrBadFormat
\* when a terminator follows later in the buffer, and otherwise ErrBadFormat
\* or ErrNoStringTerminatorFound, the latter with the buffer drained.  A
\* non-printable continuation string gives ErrBadFormat when the strings end
\* at the declared length.
C10_Continuation ==
    ChatDecoded =>
        /\ res.err \in {"nil", "ErrBadFormat", "ErrNoStringTerminatorFound"}
        /\ res.err = "nil" =>
              /\ Consumed = 4 + ChatDecl
              /\ wire[4 + ChatDecl] = 0
              /\ ChatContinuationPrintable
              /\ res.rec.Content = SelectSeq(ChatRegion, NonZero)
        /\ wire[4 + ChatDecl] # 0 => res.err # "nil"
        /\ (wire[4 + ChatDecl] # 0 /\ \E i \in (5 + ChatDecl)..Len(wire) : wire[i] = 0)
              => res.err = "ErrBadFormat"
        /\ res.err = "ErrNoStringTerminatorFound" => res.rest = <<>> /\ wire[Len(wire)] # 0
        /\ (wire[4 + ChatDecl] = 0 /\ ~ChatContinuationPrintable) => res.err = "ErrBadFormat"
        /\ (wire[4 + ChatDecl] = 0 /\ ChatContinuationPrintable) => res.err = "nil"

C10_Witness ==
    /\ ChatDecoded
    /\ res.err = "nil"
    /\ Len(ChatContinuation) >= 2
    /\ Len(res.rec.Content) = 2
    /\ Consumed = 4 + ChatDecl

----------------------------------------------------------------------------
(* C11: ReadString and its round trip with WriteString *)

HasZero(b) == \E i \in 1..Len(b) : b[i] = 0

\* what ReadString did, by the buffer it was called on
ReadStringContract ==
    last.op = "ReadString" =>
        LET b == last.before
        IN  IF HasZero(b)
            THEN \E i \in 1..Len(b) :
                    /\ b[i] = 0
                    /\ \A j \in 1..(i - 1) : b[j] # 0
                    /\ last.ret = SubSeq(b, 1, i - 1)
                    /\ last.err = NoErr
                    /\ buf = SubSeq(b, i + 1, Len(b))
            ELSE /\ last.ret = <<>>
                 /\ last.err = "ErrNoStringTerminatorFound"
                 /\ Size(buf) = 0

\* a step in which ReadString is called right after WriteString(s), s without
\* zero bytes
ReadAfterWriteString ==
    /\ last.op = "WriteString"
    /\ ~HasZero(last.arg)
    /\ last'.op = "ReadString"

\* C11 as stated: ReadString returns the bytes before the first zero byte and
\* leaves the buffer right after it, or drains the buffer with
\* ErrNoStringTerminatorFound; and on every buffer, WriteString(s) followed by
\* ReadString returns s and restores the Size() from before the write.
C11_AsStated ==
    /\ []ReadStringContract
    /\ [][ReadAfterWriteString =>
            last'.ret = last.arg /\ Size(buf') = Size(last.before)]_vars

\* C11: ReadString returns the bytes before the first zero byte and leaves the
\* buffer right after it, or drains the buffer with ErrNoStringTerminatorFound;
\* and on a buffer without unread bytes, WriteString(s) followed by ReadString
\* returns s and leaves the buffer without unread bytes again.
C11_ReadString ==
    /\ []ReadStringContract
    /\ [][ReadAfterWriteString /\ Size(last.before) = 0 =>
            last'.ret = last.arg /\ last'.err = NoErr /\ Size(buf') = 0]_vars

\* "hi" has been written to an empty buffer and read back
C11_Witness ==
    /\ last.op = "ReadString"
    /\ last.before = <<104, 105, 0>>
    /\ appended = <<104, 105, 0>>
    /\ last.ret = <<104, 105>>
    /\ buf = <<>>

----------------------------------------------------------------------------
(* C12: WriteIP and ReadIP *)

\* a 4-byte address, or a 16-byte address in the IPv4-in-IPv6 form
IsIPv4(ip) ==
    \/ Len(ip) = 4
    \/ Len(ip) = 16 /\ \A i \in 1..10 : ip[i] = 0 /\ ip[11] = 255 /\ ip[12] = 255

Last4(b) == SubSeq(b, Len(b) - 3, Len(b))

\* C12: WriteIP grows the buffer by exactly 4 bytes for every argument: the 4
\* bytes of an IPv4 address with no error, four zero bytes with ErrInvalidIP4
\* for any other address (nil included); ReadIP of four zero bytes returns
\* nil and of any other four bytes returns that address.
C12_IP ==
    /\ last.op = "WriteIP" =>
          /\ Size(buf) = Size(last.before) + 4
          /\ SubSeq(buf, 1, Size(last.before)) = last.before
          /\ IF IsIPv4(last.arg)
             THEN Last4(buf) = Last4(last.arg) /\ last.err = NoErr
             ELSE Last4(buf) = <<0, 0, 0, 0>> /\ last.err = "ErrInvalidIP4"
    /\ last.op = "ReadIP" /\ Size(last.before) >= 4 =>
          /\ last.err = NoErr
          /\ buf = SubSeq(last.before, 5, Len(last.before))
          /\ IF SubSeq(last.before, 1, 4) = <<0, 0, 0, 0>>
             THEN last.ret = <<>>
             ELSE last.ret = SubSeq(last.before, 1, 4)

\* nil has been written after another byte, as four zero bytes and an error
C12_Witness ==
    /\ last.op = "WriteIP"
    /\ last.arg = <<>>
    /\ last.err = "ErrInvalidIP4"
    /\ buf = <<7, 0, 0, 0, 0>>

----------------------------------------------------------------------------
(* C13: byte order and round trip of the fixed-width values *)

\* the w bytes an append operation added to the buffer
Added(w) == SubSeq(buf, Size(last.before) + 1, Size(last.before) + w)

\* byte i of v: bits [8i, 8(i+1))
ByteOf(v, i) == (v \div (2 ^ (8 * i))) % 256

ByteOrder ==
    /\ last.op = "WriteUInt8" => Added(1) = <<last.arg>>
    /\ last.op = "WriteUInt16" => Added(2) = <<ByteOf(last.arg, 0), ByteOf(last.arg, 1)>>
    /\ last.op = "WriteUInt32" =>
          Added(4) = <<ByteOf(last.arg, 0), ByteOf(last.arg, 1),
                       ByteOf(last.arg, 2), ByteOf(last.arg, 3)>>
    /\ last.op = "WritePort" => Added(2) = <<ByteOf(last.arg, 1), ByteOf(last.arg, 0)>>
    /\ last.op = "WritePort" /\ last.arg = 4660 => Added(2) = <<18, 52>>
    /\ last.op = "WriteBool" => Added(1) = <<IF last.arg THEN 1 ELSE 0>>
    /\ last.op \in {"WriteUInt8", "WriteUInt16", "WriteUInt32", "WritePort", "WriteBool"} =>
          Size(buf) = Size(last.before) + (IF last.op \in {"WriteUInt8", "WriteBool"} THEN 1
                                           ELSE IF last.op = "WriteUInt32" THEN 4 ELSE 2)

\* ReadX is called on the bytes WriteX has just appended to an empty buffer
ReadsBack(w, r) ==
    /\ last.op = w
    /\ Size(last.before) = 0
    /\ last'.op = r

\* C13: WriteUInt16/WriteUInt32 append byte i carrying bits [8i, 8(i+1)),
\* WritePort appends the high byte first (0x1234 as 0x12, 0x34), WriteBool
\* appends 1 or 0; and ReadX of the bytes WriteX(v) appended returns v.
C13_FixedWidth ==
    /\ []ByteOrder
    /\ [][\A x \in {"UInt8", "UInt16", "UInt32", "Port", "Bool"} :
             ReadsBack("Write" \o x, "Read" \o x) =>
                 last'.ret = last.arg /\ last'.err = NoErr /\ Size(buf') = 0]_vars

\* port 0x1234 has been written as 0x12, 0x34 and read back
C13_Witness ==
    /\ last.op = "ReadPort"
    /\ last.before = <<18, 52>>
    /\ appended = <<18, 52>>
    /\ last.ret = 4660

----------------------------------------------------------------------------
(* C14: the buffer is a queue of bytes *)

\* C14: after any sequence of append and consume operations, Size() is the
\* number of bytes appended minus the number consumed, and the buffer holds
\* the appended bytes without the consumed prefix, in their order.
C14_Queue ==
    /\ Size(buf) = Len(appended) - consumed
    /\ buf = SubSeq(appended, consumed + 1, Len(appended))

\* five bytes have been appended and three of them consumed, the last two by
\* ReadUInt16
C14_Witness ==
    /\ last.op = "ReadUInt16"
    /\ last.err = NoErr
    /\ Len(appended) = 5
    /\ consumed = 3

----------------------------------------------------------------------------
(* C15: overwrite operations *)

\* the bytes the append operation that corresponds to o appends for v
AppendOf(o, v) ==
    CASE o = "WriteUInt8At"  -> WriteUInt8(<<>>, v)
      [] o = "WriteUInt16At" -> WriteUInt16(<<>>, v)
      [] o = "WriteUInt32At" -> WriteUInt32(<<>>, v)
      [] o = "WriteBoolAt"   -> WriteBool(<<>>, v)
      [] o = "WritePortAt"   -> WritePort(<<>>, v)
      [] o = "WriteIPAt"     -> WriteIP(<<>>, v).b
      [] o = "WriteBlobAt"   -> WriteBlob(<<>>, v)
      [] o = "WriteStringAt" -> WriteString(<<>>, v)

OverwriteOps ==
    {"WriteUInt8At", "WriteUInt16At", "WriteUInt32At", "WriteBoolAt",
     "WritePortAt", "WriteIPAt", "WriteBlobAt", "WriteStringAt"}

\* C15: WriteXAt(p, v) with p + width(v) <= Size() leaves Size() and every
\* byte outside [p, p + width(v)) unchanged and sets the bytes inside to the
\* bytes WriteX(v) appends.
C15_Overwrite ==
    last.op \in OverwriteOps =>
        LET w == AppendOf(last.op, last.arg)
            p == last.pos
        IN  p + Len(w) <= Size(last.before) =>
               /\ last.err # "panic"
               /\ Size(buf) = Size(last.before)
               /\ \A i \in 1..Size(buf) :
                     buf[i] = IF i > p /\ i <= p + Len(w) THEN w[i - p] ELSE last.before[i]

\* "hi" has been written over bytes 1..3 of a 5-byte buffer
C15_Witness ==
    /\ last.op = "WriteStringAt"
    /\ last.pos = 1
    /\ last.before = <<9, 9, 9, 9, 9>>
    /\ buf = <<9, 104, 105, 0, 9>>

----------------------------------------------------------------------------
(* C16: framed round trip of the BNCS catalog values *)

FramedRoundTrip(dir, catalog) ==
    pc = "decoded" /\ origin = "serialized" /\ via = dir /\ val \in catalog =>
        /\ res.err = NoErr
        /\ res.rec = val
        /\ res.rest = <<>>

----------------------------------------------------------------------------
(* C17: Deserialize on buffers that hold no frame *)

----------------------------------------------------------------------------
(* C18: frames with an id that has no factory entry *)

FrameDecl == wire[3] + 256 * wire[4]

\* the bytes handed to the decoder start with a frame of an unknown id
UnknownFrame ==
    /\ pc = "decoded"
    /\ via \in {"client", "server"}
    /\ Len(wire) >= 4
    /\ wire[1] = 255
    /\ FrameDecl >= 4
    /\ Len(wire) >= FrameDecl
    /\ BncsFactory(wire[2], via) = "none"

----------------------------------------------------------------------------
(* C19: decoding into a record that has been used before *)

NotChat(r) == r.kind # "ChatMessage"

\* the records the callback has been called with
Seen == SubSeq(dump.records, 1, dump.idx)

\* p is r with the colors of the slots of teams below maxp numbered from 0 in
\* the order of the slots, and nothing else changed
SaneCopy(r, p, maxp) ==
    /\ p.kind = r.kind
    /\ Len(p.Slots) = Len(r.Slots)
    /\ \A j \in 1..Len(r.Slots) :
          /\ p.Slots[j].Team = r.Slots[j].Team
          /\ p.Slots[j].Color =
                IF r.Slots[j].Team >= maxp THEN r.Slots[j].Color
                ELSE Cardinality({k \in 1..(j - 1) : r.Slots[k].Team < maxp})
    /\ r.kind # "SlotInfo" => p = r

Sanitizing == dump.status # "off" /\ dump.err \notin {"Open error", "NewEncoder error"} /\ dump.sanitize

\* C20 as stated: with -sanitize, the records passed to WriteRecord are
\* exactly the records of the input that are not ChatMessage, in their order
C20_AsStated == Sanitizing => dump.passed = SelectSeq(Seen, NotChat)

SanitizedStream ==
    Sanitizing =>
        LET kept == SelectSeq(Seen, NotChat)
        IN  /\ Len(dump.passed) = Len(kept)
            /\ \A i \in 1..Len(kept) : SaneCopy(kept[i], dump.passed[i], Maxp(dump.version))
            /\ dump.status # "break"
            /\ dump.status = "exit" => dump.idx = Len(dump.records)
            /\ dump.wrote # NoErr => dump.status = "fatal" /\ dump.err = "Data error"

\* C20: with -sanitize, with or without -header, the records passed to
\* WriteRecord are the records of the input that are not ChatMessage, in their
\* order, each SlotInfo with the colors of its slots of teams below maxp
\* renumbered from 0; the early break is never taken, a run that exits has
\* passed over every record, and after a WriteRecord error the run is fatal
\* with a data error and no further record is handled
C20_Sanitize ==
    /\ []SanitizedStream
    /\ [][dump.status = "fatal" => dump' = dump]_vars

\* a run with -sanitize and -header over chat, a slot table whose colors
\* change and a GameStart has exited after passing two records on
C20_Witness ==
    /\ Sanitizing
    /\ dump.header
    /\ dump.status = "exit"
    /\ dump.skip
    /\ Len(dump.records) = 3
    /\ \E i \in 1..3 : dump.records[i].kind = "ChatMessage"
    /\ Len(dump.passed) = 2
    /\ dump.passed # SelectSeq(Seen, NotChat)

\* the records that close the header part of a replay
HeaderEnd == {"CountDownStart", "CountDownEnd", "GameStart"}

\* position of the first record that closes the header part, Len + 1 without one
FirstEnd(rs) ==
    LET at == {i \in 1..Len(rs) : rs[i].kind \in HeaderEnd}
    IN  IF at = {} THEN Len(rs) + 1 ELSE CHOOSE i \in at : \A j \in at : i <= j

\* the records printed after the header
Shown == Tail(dump.printed)

\* the run got past the header and -header is set
HeaderOnly == dump.status # "off" /\ dump.printed # <<>> /\ dump.header

\* record i of the input is what was printed in place i
ShownAs(i) ==
    IF dump.sanitize THEN SaneCopy(dump.records[i], Shown[i], Maxp(dump.version))
    ELSE Shown[i] = dump.records[i]

\* every record of the input was decoded and the run is over
RunOver ==
    \/ dump.status = "exit"
    \/ dump.status = "fatal" /\ (dump.wrote # NoErr \/ dump.err = "Save error")

HeaderPrinting ==
    HeaderOnly =>
        LET fe == FirstEnd(dump.records)
        IN  /\ Len(Shown) <= fe - 1
            /\ \A i \in 1..Len(Shown) : ShownAs(i)
            /\ dump.wrote = NoErr => Len(Shown) = Min(dump.idx, fe - 1)
            /\ dump.wrote # NoErr => Len(Shown) = Min(dump.idx - 1, fe - 1)
            /\ ~dump.sanitize => dump.idx <= fe
            /\ ~dump.sanitize /\ dump.status = "exit" =>
                    dump.idx = Min(fe, Len(dump.records)) /\ dump.err = NoErr
            /\ dump.sanitize /\ dump.status = "exit" => dump.idx = Len(dump.records)
            /\ dump.status = "break" => dump.idx = fe /\ ~dump.sanitize

Streaming == stream.pc # "off"

\* the first packet received is the Join of the advertised game
FirstIsJoin == stream.rcvd # <<>> /\ stream.rcvd[1] = Pkt("Join", 1, "DEADBEEF")

Received(p) == \E j \in 1..Len(stream.rcvd) : stream.rcvd[j] = p

ReceivedType(t) == \E j \in 1..Len(stream.rcvd) : stream.rcvd[j].t = t

\* a packet that forwards a replay record
IsDerived(p) ==
    \/ p.t \in {"PlayerLeft", "TimeSlot", "Desync"}
    \/ p.t = "MessageRelay" /\ p.arg = "chat"

RECURSIVE Forwarded(_, _)
\* the packets the records rs are to be forwarded as when h is the host
Forwarded(rs, h) ==
    IF rs = <<>> THEN <<>>
    ELSE LET r == Head(rs)
             f == IF r.kind = "PlayerLeft" /\ r.PlayerID # h THEN <<Pkt("PlayerLeft", r.PlayerID, r.arg)>>
                  ELSE IF r.kind \in {"TimeSlot", "Desync"} THEN <<Pkt(r.kind, 0, r.arg)>>
                  ELSE IF r.kind = "ChatMessage" THEN <<Pkt("MessageRelay", r.PlayerID, r.arg)>>
                  ELSE <<>>
         IN  f \o Forwarded(Tail(rs), h)

\* the packets sent so far that forward a replay record
DerivedSent == SelectSeq(stream.sent, IsDerived)

\* without the right Join first, nothing but one RejectJoin is sent
RejectOnly ==
    /\ stream.rcvd = <<>> => stream.sent = <<>>
    /\ stream.rcvd # <<>> /\ ~FirstIsJoin =>
          /\ stream.sent = <<Pkt("RejectJoin", 0,
                                 IF stream.rcvd[1].t = "Join" THEN "WrongKey" ELSE "Invalid")>>
          /\ stream.pc = "returned"
          /\ stream.ret = "errUnexpectedPacket"

\* every packet sent has had its condition met by a packet received before
SentInOrder ==
    \A i \in 1..Len(stream.sent) :
        LET p == stream.sent[i]
        IN  /\ p.t \in {"SlotInfoJoin", "PlayerInfo", "MapCheck"} => FirstIsJoin
            /\ p.t \in {"CountDownStart", "CountDownEnd"} => Received(Pkt("MapState", 0, "ready"))
            /\ IsDerived(p) => ReceivedType("GameLoaded")
            /\ ~(p.t = "PlayerLeft" /\ p.id = stream.hostID)

\* a second packet that is not a ready MapState ends cast with errMapUnavailable
MapUnavailable ==
    FirstIsJoin /\ Len(stream.rcvd) >= 2 /\ stream.rcvd[2] # Pkt("MapState", 0, "ready") =>
        /\ stream.pc = "returned"
        /\ stream.ret = "errMapUnavailable"

\* the forwarded packets are those of the records handled so far, in the
\* order of the records; the last one may still be waiting to be sent
RecordOrder ==
    LET expected == Forwarded(SubSeq(stream.records, 1, stream.idx), stream.hostID)
        n        == Len(DerivedSent)
    IN  /\ n <= Len(expected)
        /\ Len(expected) <= n + 1
        /\ DerivedSent = SubSeq(expected, 1, n)
        /\ stream.pc = "returned" /\ stream.ret = NoErr => DerivedSent = Forwarded(stream.records, stream.hostID)

\* C22: in cast, unless the first packet received is a Join with HostCounter 1
\* and EntryKey 0xDEADBEEF the only packet sent is a RejectJoin (WrongKey for
\* another Join, Invalid for another type) and cast returns
\* errUnexpectedPacket; SlotInfoJoin, PlayerInfo and MapCheck are sent only
\* after that Join; CountDownStart and CountDownEnd only after a ready
\* MapState was received, otherwise cast returns errMapUnavailable; packets
\* that forward replay records are sent only after GameLoaded was received,
\* in record order, and never a PlayerLeft of the chosen host
C22_Handshake ==
    Streaming => RejectOnly /\ SentInOrder /\ MapUnavailable /\ RecordOrder

\* cast has returned nil after three records, one of them the leave of the
\* host, which was passed over, while a .speed command was answered
C22_Witness ==
    /\ Streaming
    /\ stream.pc = "returned"
    /\ stream.ret = NoErr
    /\ Len(stream.records) = 3
    /\ \E i \in 1..3 : stream.records[i].kind = "PlayerLeft" /\ stream.records[i].PlayerID = stream.hostID
    /\ Len(DerivedSent) = 2
    /\ DerivedSent[1] # DerivedSent[2]
    /\ ReceivedType("Message")

====
